---- MODULE Spec2Model ----
(***************************************************************************)
(* A model of the mood-to-music pipeline of moodmuse:                      *)
(*   EmotionDetectionService  (scene classification, scene -> vibe table)  *)
(*   MusicService             (token cache, search, audio-feature ranking) *)
(*   MoodMusicService         (the two-stage pipeline and its error tags)  *)
(*                                                                         *)
(* JavaScript strings are sequences of one-character strings, so that      *)
(* toLowerCase(), includes() and template literals are computed and not    *)
(* assumed.  JavaScript values are records tagged with their type in t.    *)
(***************************************************************************)
EXTENDS Integers, Sequences, FiniteSets, TLC

\* ------------------------------------------------------------------------
\* Bounds of the model
\* ------------------------------------------------------------------------

\* Longest string over an alphabet that is drawn as a label, scene or mood.
MaxLen == 4

\* ------------------------------------------------------------------------
\* JavaScript strings
\* ------------------------------------------------------------------------

UpperChars ==
  <<"A","B","C","D","E","F","G","H","I","J","K","L","M",
    "N","O","P","Q","R","S","T","U","V","W","X","Y","Z">>

LowerChars ==
  <<"a","b","c","d","e","f","g","h","i","j","k","l","m",
    "n","o","p","q","r","s","t","u","v","w","x","y","z">>

\* String.prototype.toLowerCase on one character.
toLowerChar(c) ==
  IF \E i \in 1..Len(UpperChars) : UpperChars[i] = c
    THEN LowerChars[CHOOSE i \in 1..Len(UpperChars) : UpperChars[i] = c]
    ELSE c

\* String.prototype.toLowerCase.
toLowerCase(s) == [i \in 1..Len(s) |-> toLowerChar(s[i])]

\* String.prototype.toUpperCase on one character (used to draw inputs in
\* other letter cases).
toUpperChar(c) ==
  IF \E i \in 1..Len(LowerChars) : LowerChars[i] = c
    THEN UpperChars[CHOOSE i \in 1..Len(LowerChars) : LowerChars[i] = c]
    ELSE c

toUpperCase(s) == [i \in 1..Len(s) |-> toUpperChar(s[i])]

\* String.prototype.includes.
includes(s, sub) ==
  \E i \in 0..(Len(s) - Len(sub)) : SubSeq(s, i + 1, i + Len(sub)) = sub

\* Every string over alphabet of length at most n.
StringsUpTo(alphabet, n) == UNION {[1..k -> alphabet] : k \in 0..n}

\* The characters the drawn scenes are made of: enough to spell the table key
\* 'bar' in lower, mixed and upper case, and strings that are no key.
SceneAlphabet == {"b", "a", "r", "B"}

\* The characters the drawn moods are made of: enough to spell the vibe
\* 'calm' in lower, mixed and upper case, and strings that are no vibe.
MoodAlphabet == {"c", "a", "l", "m", "C", "M"}

\* ------------------------------------------------------------------------
\* JavaScript values
\* ------------------------------------------------------------------------

Undefined == [t |-> "undefined"]
Null == [t |-> "null"]
JsStr(s) == [t |-> "string", str |-> s]
JsNum(n) == [t |-> "number", num |-> n]
JsArr(items) == [t |-> "array", items |-> items]
JsObj(fields) == [t |-> "object", fields |-> fields]
\* A value inherited from Object.prototype (a function, or the prototype itself).
JsBuiltin(name) == [t |-> "builtin", name |-> name]

\* ToBoolean: what `x || y` and `if (x)` test.
Truthy(x) ==
  CASE x.t = "undefined" -> FALSE
    [] x.t = "null" -> FALSE
    [] x.t = "string" -> Len(x.str) > 0
    [] x.t = "number" -> x.num # 0
    [] OTHER -> TRUE

\* The JavaScript expression a || b.
JsOr(a, b) == IF Truthy(a) THEN a ELSE b

\* The property names every object literal inherits from Object.prototype.
ObjectPrototypeKeys ==
  { <<"c","o","n","s","t","r","u","c","t","o","r">>,
    <<"_","_","p","r","o","t","o","_","_">>,
    <<"h","a","s","O","w","n","P","r","o","p","e","r","t","y">>,
    <<"i","s","P","r","o","t","o","t","y","p","e","O","f">>,
    <<"p","r","o","p","e","r","t","y","I","s","E","n","u","m","e","r","a","b","l","e">>,
    <<"t","o","L","o","c","a","l","e","S","t","r","i","n","g">>,
    <<"t","o","S","t","r","i","n","g">>,
    <<"v","a","l","u","e","O","f">>,
    <<"_","_","d","e","f","i","n","e","G","e","t","t","e","r","_","_">>,
    <<"_","_","d","e","f","i","n","e","S","e","t","t","e","r","_","_">>,
    <<"_","_","l","o","o","k","u","p","G","e","t","t","e","r","_","_">>,
    <<"_","_","l","o","o","k","u","p","S","e","t","t","e","r","_","_">> }

\* table[key] on an object literal: the own property, else the property
\* inherited from Object.prototype, else undefined.
GetProperty(table, key) ==
  IF key \in DOMAIN table THEN table[key]
  ELSE IF key \in ObjectPrototypeKeys THEN JsBuiltin(key)
  ELSE Undefined

\* ------------------------------------------------------------------------
\* The vibe vocabulary
\* ------------------------------------------------------------------------

party == <<"p","a","r","t","y">>
calm == <<"c","a","l","m">>
happy == <<"h","a","p","p","y">>
romantic == <<"r","o","m","a","n","t","i","c">>
energetic == <<"e","n","e","r","g","e","t","i","c">>
cozy == <<"c","o","z","y">>
melancholy == <<"m","e","l","a","n","c","h","o","l","y">>
neutral == <<"n","e","u","t","r","a","l">>

\* MoodMusicService.getSupportedVibes
getSupportedVibes ==
  <<party, calm, happy, romantic, energetic, cozy, melancholy, neutral>>

\* ------------------------------------------------------------------------
\* EmotionDetectionService.mapSceneToVibe
\* ------------------------------------------------------------------------

sceneToVibeMap ==
  (<<"d","a","n","c","e","_","s","t","u","d","i","o">> :> JsStr(party)) @@
  (<<"d","i","s","c","o","t","h","e","q","u","e">> :> JsStr(party)) @@
  (<<"n","i","g","h","t","_","c","l","u","b">> :> JsStr(party)) @@
  (<<"b","a","r">> :> JsStr(party)) @@
  (<<"c","o","n","c","e","r","t","_","h","a","l","l">> :> JsStr(party)) @@
  (<<"m","u","s","i","c","_","s","t","u","d","i","o">> :> JsStr(party)) @@
  (<<"b","e","a","c","h">> :> JsStr(calm)) @@
  (<<"z","e","n","_","g","a","r","d","e","n">> :> JsStr(calm)) @@
  (<<"f","o","r","e","s","t","_","p","a","t","h">> :> JsStr(calm)) @@
  (<<"m","o","u","n","t","a","i","n">> :> JsStr(calm)) @@
  (<<"l","a","k","e">> :> JsStr(calm)) @@
  (<<"o","c","e","a","n">> :> JsStr(calm)) @@
  (<<"s","k","y">> :> JsStr(calm)) @@
  (<<"l","i","b","r","a","r","y">> :> JsStr(calm)) @@
  (<<"a","m","u","s","e","m","e","n","t","_","p","a","r","k">> :> JsStr(happy)) @@
  (<<"p","l","a","y","g","r","o","u","n","d">> :> JsStr(happy)) @@
  (<<"w","a","t","e","r","_","p","a","r","k">> :> JsStr(happy)) @@
  (<<"t","h","e","m","e","_","p","a","r","k">> :> JsStr(happy)) @@
  (<<"f","a","i","r">> :> JsStr(happy)) @@
  (<<"c","a","r","n","i","v","a","l">> :> JsStr(happy)) @@
  (<<"r","e","s","t","a","u","r","a","n","t">> :> JsStr(romantic)) @@
  (<<"v","i","n","e","y","a","r","d">> :> JsStr(romantic)) @@
  (<<"f","o","r","m","a","l","_","g","a","r","d","e","n">> :> JsStr(romantic)) @@
  (<<"g","a","z","e","b","o">> :> JsStr(romantic)) @@
  (<<"g","y","m">> :> JsStr(energetic)) @@
  (<<"s","t","a","d","i","u","m">> :> JsStr(energetic)) @@
  (<<"a","t","h","l","e","t","i","c","_","f","i","e","l","d">> :> JsStr(energetic)) @@
  (<<"b","a","s","k","e","t","b","a","l","l","_","c","o","u","r","t">> :> JsStr(energetic)) @@
  (<<"t","e","n","n","i","s","_","c","o","u","r","t">> :> JsStr(energetic)) @@
  (<<"c","o","f","f","e","e","_","s","h","o","p">> :> JsStr(cozy)) @@
  (<<"c","a","f","e">> :> JsStr(cozy)) @@
  (<<"l","i","v","i","n","g","_","r","o","o","m">> :> JsStr(cozy)) @@
  (<<"b","e","d","r","o","o","m">> :> JsStr(cozy)) @@
  (<<"f","i","r","e","p","l","a","c","e">> :> JsStr(cozy)) @@
  (<<"c","e","m","e","t","e","r","y">> :> JsStr(melancholy)) @@
  (<<"r","u","i","n","s">> :> JsStr(melancholy)) @@
  (<<"a","b","a","n","d","o","n","e","d","_","b","u","i","l","d","i","n","g">> :> JsStr(melancholy)) @@
  (<<"r","a","i","n">> :> JsStr(melancholy))

\* return sceneToVibeMap[scene] || 'neutral'
mapSceneToVibe(scene) == JsOr(GetProperty(sceneToVibeMap, scene), JsStr(neutral))

\* The scenes mapSceneToVibe is applied to.
SceneInputs ==
  StringsUpTo(SceneAlphabet, MaxLen) \cup DOMAIN sceneToVibeMap
    \cup ObjectPrototypeKeys

\* ------------------------------------------------------------------------
\* Outcomes of a call: a returned value or a thrown one
\* ------------------------------------------------------------------------

Return(x) == [thrown |-> FALSE, value |-> x]
Throw(e) == [thrown |-> TRUE, value |-> e]
\* An instance of Error (or TypeError) with its message.
JsError(message) == [t |-> "error", message |-> message]
\* A thrown value that is no instance of Error (a ProgressEvent).
NonError == [t |-> "event"]

\* error instanceof Error ? error.message : fallback
messageOr(error, fallback) == IF error.t = "error" THEN error.message ELSE fallback

\* ------------------------------------------------------------------------
\* Array.prototype.sort((a, b) => b.score - a.score)
\* ------------------------------------------------------------------------

\* The comparator with its operands exchanged: an ascending sort.
compareFnAscending(a, b) == a.score.num - b.score.num

\* The comparator both sorts of the program use; scores are numbers.
compareFn(a, b) == b.score.num - a.score.num

\* x put into an already sorted array: behind every element the comparator
\* does not order after it (the sort is stable, as ECMAScript requires).
RECURSIVE insertSorted(_, _)
insertSorted(sorted, x) ==
  IF sorted = <<>> THEN <<x>>
  ELSE IF compareFn(sorted[Len(sorted)], x) > 0
    THEN Append(insertSorted(SubSeq(sorted, 1, Len(sorted) - 1), x),
                sorted[Len(sorted)])
    ELSE Append(sorted, x)

RECURSIVE sortByScore(_)
sortByScore(s) ==
  IF s = <<>> THEN <<>>
  ELSE insertSorted(sortByScore(SubSeq(s, 1, Len(s) - 1)), s[Len(s)])

\* ------------------------------------------------------------------------
\* EmotionDetectionService.analyzeImageVibe
\* ------------------------------------------------------------------------

\* What the exchange with the classification endpoint can come to.
\* fileToBase64 rejects (with a ProgressEvent, no Error):
EncodeError == [kind |-> "encodeError"]
\* fetch rejects:
NetworkError == [kind |-> "networkError"]
\* fetch resolves; body is the parsed JSON, or InvalidJson when json() rejects.
Response(ok, status, statusText, body) ==
  [kind |-> "response", ok |-> ok, status |-> status,
   statusText |-> statusText, body |-> body]
InvalidJson == [t |-> "invalid"]

StatusTexts == {<<>>, <<"S","e","r","v","i","c","e"," ","U","n","a","v","a","i","l","a","b","l","e">>}
FailureStatuses == {<<"4","0","1">>, <<"5","0","3">>}
OkStatus == <<"2","0","0">>

\* The answers of an endpoint with a non-success status, whatever the body.
FailedResponses(bodies) ==
  {Response(FALSE, st, tx, b) : st \in FailureStatuses, tx \in StatusTexts, b \in bodies}

\* A 200 answer with the given body.
OkResponse(body) == Response(TRUE, OkStatus, <<"O","K">>, body)

\* x.name for a parsed JSON value x that is neither null nor undefined.
Prop(x, name) ==
  IF x.t = "object" /\ name \in DOMAIN x.fields THEN x.fields[name] ELSE Undefined

\* Whether x.name can be read at all (a TypeError otherwise).
HasProps(x) == x.t \notin {"null", "undefined"}

\* The check of the status left out: every answer is taken as a success.
ResponseOkAlways(response) == TRUE

\* if (!response.ok)
ResponseOk(response) == response.ok

\* item => ({label: item.label.toLowerCase(),
\*           score: item.score || item.confidence || 0})
\* defined when item.label is a string.
toEmotionResult(item) ==
  [label |-> toLowerCase(Prop(item, "label").str),
   score |-> JsOr(JsOr(Prop(item, "score"), Prop(item, "confidence")), JsNum(0))]

\* Whether item.label.toLowerCase() evaluates (a TypeError otherwise).
HasStringLabel(item) == HasProps(item) /\ Prop(item, "label").t = "string"

\* if (sortedEmotions.length === 0) throw
NoSceneDetected(sortedEmotions) == Len(sortedEmotions) = 0

\* The returned object with the sort left out: the emotions as listed.
analysisOfUnsorted(emotions, scene, vibe) ==
  IF NoSceneDetected(emotions)
    THEN Throw(JsError(<<"N","o"," ","s","c","e","n","e"," ","d","e","t","e","c","t","e","d"," ","i","n"," ","t","h","e"," ","i","m","a","g","e">>))
    ELSE Return(JsObj([dominantEmotion |-> vibe,
                       emotions |-> emotions,
                       confidence |-> emotions[1].score,
                       vibe |-> vibe,
                       scene |-> JsStr(scene)]))

\* The sort, the emptiness check and the returned object (lines 85-98).
analysisOf(emotions, scene, vibe) ==
  LET sortedEmotions == sortByScore(emotions) IN
  IF NoSceneDetected(sortedEmotions)
    THEN Throw(JsError(<<"N","o"," ","s","c","e","n","e"," ","d","e","t","e","c","t","e","d"," ","i","n"," ","t","h","e"," ","i","m","a","g","e">>))
    ELSE Return(JsObj([dominantEmotion |-> vibe,
                       emotions |-> sortedEmotions,
                       confidence |-> sortedEmotions[1].score,
                       vibe |-> vibe,
                       scene |-> JsStr(scene)]))

\* The body of the try block, from the parsed JSON on (lines 59-98).
normalizeResults(results, engineMessage) ==
  IF results.t = "array" THEN
    IF \E i \in 1..Len(results.items) : ~HasStringLabel(results.items[i])
      THEN Throw(JsError(engineMessage))
    ELSE IF Len(results.items) = 0
      THEN Throw(JsError(engineMessage))   \* emotions[0].label of an empty array
    ELSE LET emotions == [i \in 1..Len(results.items) |-> toEmotionResult(results.items[i])]
             scene == emotions[1].label
         IN analysisOf(emotions, scene, mapSceneToVibe(scene))
  ELSE IF ~HasProps(results) THEN Throw(JsError(engineMessage))
  ELSE IF Truthy(Prop(results, "label")) THEN
    IF ~HasStringLabel(results) THEN Throw(JsError(engineMessage))
    ELSE LET emotions == <<toEmotionResult(results)>>
             scene == toLowerCase(Prop(results, "label").str)
         IN analysisOf(emotions, scene, mapSceneToVibe(scene))
  ELSE analysisOf(<<>>, <<>>, JsStr(<<>>))

\* The try block (lines 36-98).
analyzeImageVibeTry(exchange, engineMessage) ==
  IF exchange.kind = "encodeError" THEN Throw(NonError)
  ELSE IF exchange.kind = "networkError" THEN Throw(JsError(engineMessage))
  ELSE IF ~ResponseOk(exchange)
    THEN Throw(JsError(<<"H","u","g","g","i","n","g"," ","F","a","c","e"," ","A","P","I"," ","e","r","r","o","r",":"," ">>
                       \o exchange.status \o <<" ">> \o exchange.statusText))
  ELSE IF exchange.body = InvalidJson THEN Throw(JsError(engineMessage))
  ELSE normalizeResults(exchange.body, engineMessage)

\* analyzeImageVibe: the try block, and the catch that rethrows (lines 99-102).
analyzeImageVibe(exchange, engineMessage) ==
  LET attempt == analyzeImageVibeTry(exchange, engineMessage) IN
  IF attempt.thrown
    THEN Throw(JsError(<<"F","a","i","l","e","d"," ","t","o"," ","a","n","a","l","y","z","e"," ","s","c","e","n","e"," ","v","i","b","e",":"," ">>
                       \o messageOr(attempt.value, <<"U","n","k","n","o","w","n"," ","e","r","r","o","r">>)))
    ELSE attempt

\* ------------------------------------------------------------------------
\* MusicService: the per-vibe tables
\* ------------------------------------------------------------------------

Vibes == {party, calm, happy, romantic, energetic, cozy, melancholy, neutral}

vibeMap ==
  (party :> JsObj([query |-> "genre:electronic,dance,pop energy:high mood:party",
                   reasoning |-> "High-energy dance music perfect for parties"])) @@
  (calm :> JsObj([query |-> "genre:ambient,classical,instrumental,lofi mood:calm energy:low",
                  reasoning |-> "Peaceful and relaxing music for calm moments"])) @@
  (happy :> JsObj([query |-> "genre:pop,indie,folk mood:happy energy:medium",
                   reasoning |-> "Feel-good music with positive vibes"])) @@
  (romantic :> JsObj([query |-> "genre:r&b,soul,jazz mood:romantic energy:medium",
                      reasoning |-> "Romantic and soulful music for intimate moments"])) @@
  (energetic :> JsObj([query |-> "genre:electronic,rock,pop energy:high tempo:>120",
                       reasoning |-> "High-tempo music to boost energy and motivation"])) @@
  (cozy :> JsObj([query |-> "genre:folk,acoustic,indie mood:chill energy:low acousticness:>0.5",
                  reasoning |-> "Warm acoustic music perfect for cozy environments"])) @@
  (melancholy :> JsObj([query |-> "genre:indie,alternative,acoustic mood:sad energy:low",
                        reasoning |-> "Introspective and emotional music for reflective moments"])) @@
  (neutral :> JsObj([query |-> "genre:indie,alternative,chill energy:medium",
                     reasoning |-> "Balanced and versatile music for any mood"]))

\* The message of the TypeError an engine raises for a call of a method the
\* receiver does not have; the text is the engine's (and the bundler's, which
\* may rename the variable).
NotAFunctionMessages ==
  { <<"v","i","b","e",".","t","o","L","o","w","e","r","C","a","s","e"," ",
      "i","s"," ","n","o","t"," ","a"," ","f","u","n","c","t","i","o","n">>,
    <<"e",".","t","o","L","o","w","e","r","C","a","s","e"," ",
      "i","s"," ","n","o","t"," ","a"," ","f","u","n","c","t","i","o","n">> }

\* return vibeMap[vibe.toLowerCase()] || vibeMap.neutral
\* vibe is a JavaScript value: only a string has toLowerCase.
getEmotionSearchParams(vibe, engineMessage) ==
  IF vibe.t # "string" THEN Throw(JsError(engineMessage))
  ELSE Return(JsOr(GetProperty(vibeMap, toLowerCase(vibe.str)), vibeMap[neutral]))

\* Audio-feature values are tenths: 8 stands for 0.8.
criteriaMap ==
  (party :> JsObj([valence |-> 8, energy |-> 9, danceability |-> 8])) @@
  (calm :> JsObj([valence |-> 5, energy |-> 2, acousticness |-> 7])) @@
  (happy :> JsObj([valence |-> 7, energy |-> 6, danceability |-> 6])) @@
  (romantic :> JsObj([valence |-> 7, energy |-> 5, acousticness |-> 4])) @@
  (energetic :> JsObj([valence |-> 6, energy |-> 9, danceability |-> 7])) @@
  (cozy :> JsObj([valence |-> 6, energy |-> 3, acousticness |-> 8])) @@
  (melancholy :> JsObj([valence |-> 3, energy |-> 3, acousticness |-> 5])) @@
  (neutral :> JsObj([valence |-> 5, energy |-> 5, danceability |-> 5]))

\* return criteriaMap[vibe.toLowerCase()] || criteriaMap.neutral
getEmotionCriteria(vibe, engineMessage) ==
  IF vibe.t # "string" THEN Throw(JsError(engineMessage))
  ELSE Return(JsOr(GetProperty(criteriaMap, toLowerCase(vibe.str)), criteriaMap[neutral]))

\* ------------------------------------------------------------------------
\* MusicService.calculateEmotionScore and filterTracksByEmotion
\* ------------------------------------------------------------------------

\* Scores are kept in units of 1/(10 * ScoreUnit): the mean of one, two or
\* three terms, each a number of tenths, is then an exact integer.
ScoreUnit == 6

\* Math.abs
Abs(x) == IF x < 0 THEN -x ELSE x

\* The sum of term[k] over the keys k.
RECURSIVE SumOver(_, _)
SumOver(keys, term) ==
  IF keys = {} THEN 0
  ELSE LET k == CHOOSE x \in keys : TRUE
       IN term[k] + SumOver(keys \ {k}, term)

\* Object.entries(x): the own enumerable properties; a built-in function or
\* Object.prototype has none.
OwnEntries(x) == IF x.t = "object" THEN x.fields ELSE <<>>

\* The score with the sum divided by the number of target attributes, the
\* ones the track's features leave undefined included.
calculateEmotionScoreOverTargets(features, criteria) ==
  LET target == OwnEntries(criteria)
      comparable == {k \in DOMAIN target : k \in DOMAIN features.fields}
      closeness == [k \in comparable |-> 10 - Abs(features.fields[k] - target[k])]
      criteriaCount == Cardinality(DOMAIN target)
  IN IF criteriaCount > 0
       THEN JsNum((SumOver(comparable, closeness) * ScoreUnit) \div criteriaCount)
       ELSE JsNum(0)

\* calculateEmotionScore: the mean of 1 - |actual - target| over the target
\* attributes the track's features define; 0 when there is none.
calculateEmotionScore(features, criteria) ==
  LET target == OwnEntries(criteria)
      comparable == {k \in DOMAIN target : k \in DOMAIN features.fields}
      closeness == [k \in comparable |-> 10 - Abs(features.fields[k] - target[k])]
      criteriaCount == Cardinality(comparable)
  IN IF criteriaCount > 0
       THEN JsNum((SumOver(comparable, closeness) * ScoreUnit) \div criteriaCount)
       ELSE JsNum(0)

\* What the exchange with the audio-feature endpoint can come to: NetworkError,
\* or a Response whose body is InvalidJson or the parsed JSON.
\* audioFeatures[index]: undefined beyond the end of the array.
ElementAt(array, index) ==
  IF array.t = "array" /\ index \in 1..Len(array.items)
    THEN array.items[index] ELSE Undefined

\* The scoring with a track without features given the full score.
scoreTrackMissingAsBest(track, features, emotionCriteria) ==
  IF ~Truthy(features) THEN [track |-> track, score |-> JsNum(10 * ScoreUnit)]
  ELSE [track |-> track, score |-> calculateEmotionScore(features, emotionCriteria)]

\* (track, index) => features ? {track, score} : {track, score: 0}
scoreTrack(track, features, emotionCriteria) ==
  IF ~Truthy(features) THEN [track |-> track, score |-> JsNum(0)]
  ELSE [track |-> track, score |-> calculateEmotionScore(features, emotionCriteria)]

\* The scoring with only the tracks the answer has an entry for.
scoredTracksOfAnswered(tracks, audioFeatures, emotionCriteria) ==
  [index \in 1..(IF audioFeatures.t = "array" THEN Len(audioFeatures.items) ELSE 0) |->
     scoreTrack(tracks[index], ElementAt(audioFeatures, index), emotionCriteria)]

\* The scored tracks, in the order of the search result (lines 188-194).
scoredTracksOf(tracks, audioFeatures, emotionCriteria) ==
  [index \in 1..Len(tracks) |->
     scoreTrack(tracks[index], ElementAt(audioFeatures, index), emotionCriteria)]

\* The check of the status left out: every answer is ranked.
FeaturesOkAlways(response) == TRUE

\* if (!response.ok) return tracks           (line 176)
FeaturesOk(response) == response.ok

\* filterTracksByEmotion: never throws; what it returns.
filterTracksByEmotion(tracks, emotion, exchange, engineMessage) ==
  IF Len(tracks) = 0 THEN tracks
  ELSE IF exchange.kind = "networkError" THEN tracks
  ELSE IF ~FeaturesOk(exchange) THEN tracks
  ELSE IF exchange.body = InvalidJson THEN tracks
  ELSE IF ~HasProps(exchange.body) THEN tracks
  ELSE IF getEmotionCriteria(emotion, engineMessage).thrown THEN tracks
  ELSE IF ~HasProps(Prop(exchange.body, "audio_features")) THEN tracks
  ELSE LET audioFeatures == Prop(exchange.body, "audio_features")
           emotionCriteria == getEmotionCriteria(emotion, engineMessage).value
           scoredTracks == scoredTracksOf(tracks, audioFeatures, emotionCriteria)
           sorted == sortByScore(scoredTracks)
       IN [i \in 1..Len(sorted) |-> sorted[i].track]

\* ------------------------------------------------------------------------
\* Inputs of the ranking
\* ------------------------------------------------------------------------

\* Longest search result that is ranked.
MaxTracks == 3

\* The search result of n tracks, in the vendor's order.
TrackName == <<"track1", "track2", "track3", "track4", "track5">>
Tracks(n) == [i \in 1..n |-> TrackName[i]]

\* Feature values in tenths.
FeatureValues == {2, 8}

\* The attribute sets of the feature vectors drawn: none, some of the target
\* attributes, and an attribute that is no target of 'calm'.
FeatureKeySets ==
  { {}, {"valence"}, {"valence", "acousticness"},
    {"valence", "acousticness", "danceability"}, {"danceability"} }

\* The entries of data.audio_features: feature vectors, and null.
FeatureInputs ==
  {JsObj(f) : f \in UNION {[K -> FeatureValues] : K \in FeatureKeySets}}
    \cup {Null}

\* The bodies of the audio-feature endpoint for n tracks: one entry per
\* track or fewer, and bodies without the array.
FeatureBodies(n) ==
  {JsObj([audio_features |-> JsArr(a)]) :
      a \in UNION {[1..k -> FeatureInputs] : k \in 0..n}}
    \cup {JsObj([error |-> JsNum(1)]), Null, InvalidJson}

FeatureExchanges(n) ==
  {NetworkError}
    \cup {OkResponse(b) : b \in FeatureBodies(n)}
    \cup FailedResponses({JsObj([audio_features |-> JsArr(<<>>)])})

\* The attributes of the feature vectors that are scored directly: the four
\* the criteria name, and tempo, which no mood has a target for.
ScoreAttributes == {"valence", "energy", "danceability", "acousticness", "tempo"}

\* The feature vectors scored directly: every set of attributes defined.
ScoreVectors ==
  {JsObj(f) : f \in UNION {[K -> FeatureValues] : K \in SUBSET ScoreAttributes}}

\* The criteria scored against: the target map of every vibe, and what
\* criteriaMap['constructor'] resolves to.
CriteriaInputs ==
  {criteriaMap[v] : v \in Vibes} \cup {JsBuiltin(<<"c","o","n","s","t","r","u","c","t","o","r">>)}

\* The emotions the ranking is asked for.
RankEmotions == {JsStr(calm), JsStr(toUpperCase(party)), JsBuiltin(<<"c","o","n","s","t","r","u","c","t","o","r">>)}

\* The moods the matcher's tables are looked up with.
MoodInputs ==
  StringsUpTo(MoodAlphabet, MaxLen) \cup Vibes
    \cup {toUpperCase(v) : v \in Vibes} \cup ObjectPrototypeKeys

\* ------------------------------------------------------------------------
\* Inputs of the classifier
\* ------------------------------------------------------------------------

\* Longest array the classification endpoint answers with.
MaxItems == 2

beach == <<"b","e","a","c","h">>

\* Scores in tenths (9 stands for 0.9); 0 is the falsy score.
ScoreInputs == {0, 3, 9}

\* The labels of a single prediction.
LabelInputs ==
  StringsUpTo(SceneAlphabet, MaxLen) \cup {beach, toUpperCase(beach)}
    \cup {k \in ObjectPrototypeKeys : toLowerCase(k) = k}

\* {label: L, score: S}
Prediction(L, S) == JsObj([label |-> JsStr(L), score |-> JsNum(S)])

\* The labels of the entries of a longer array.
ItemLabels == {<<"b","a","r">>, <<"B","e","a","c","h">>, <<"r","a","b">>}

\* The entries of an array answer: predictions with a score, with a
\* confidence instead, with neither, without a label, and null.
ItemInputs ==
  {Prediction(L, S) : L \in ItemLabels, S \in {3, 9}}
    \cup {JsObj([label |-> JsStr(L), confidence |-> JsNum(3)]) : L \in ItemLabels}
    \cup {JsObj([label |-> JsStr(L)]) : L \in ItemLabels}
    \cup {JsObj([score |-> JsNum(9)]), Null}

\* The parsed JSON bodies: arrays, single objects, and values that are neither.
BodyInputs ==
  {JsArr(items) : items \in UNION {[1..k -> ItemInputs] : k \in 0..MaxItems}}
    \cup {Prediction(L, S) : L \in LabelInputs, S \in ScoreInputs}
    \cup ItemInputs
    \cup {JsObj([label |-> JsNum(3)]), JsStr(beach), JsNum(9), InvalidJson}

ClassifierExchanges ==
  {EncodeError, NetworkError}
    \cup {OkResponse(b) : b \in BodyInputs}
    \cup FailedResponses({Prediction(beach, 9), JsArr(<<Prediction(beach, 9)>>), InvalidJson})

\* The messages of the errors the engine itself raises (TypeError,
\* SyntaxError, a rejected fetch).
EngineMessages ==
  NotAFunctionMessages \cup {<<"F","a","i","l","e","d"," ","t","o"," ","f","e","t","c","h">>}

\* ------------------------------------------------------------------------
\* MusicService.findMusicByEmotion and MoodMusicService: helpers
\* ------------------------------------------------------------------------

Digits == <<"0","1","2","3","4","5","6","7","8","9">>

\* `${n}` of a non-negative integer.
RECURSIVE numberToString(_)
numberToString(n) ==
  IF n < 10 THEN <<Digits[n + 1]>>
  ELSE numberToString(n \div 10) \o <<Digits[(n % 10) + 1]>>

\* `${x}` of a string, of a function inherited from Object.prototype (the
\* constructor property is the function Object), and of Object.prototype
\* itself.
toString(x) ==
  IF x.t = "string" THEN x.str
  ELSE IF x.name = <<"_","_","p","r","o","t","o","_","_">>
    THEN <<"[","o","b","j","e","c","t"," ","O","b","j","e","c","t","]">>
  ELSE <<"f","u","n","c","t","i","o","n"," ">>
         \o (IF x.name = <<"c","o","n","s","t","r","u","c","t","o","r">>
               THEN <<"O","b","j","e","c","t">> ELSE x.name)
         \o <<"(",")"," ","{"," ","[","n","a","t","i","v","e"," ","c","o","d","e","]"," ","}">>

\* The error the catch of getAccessToken throws (line 76).
AuthenticationError ==
  JsError(<<"F","a","i","l","e","d"," ","t","o"," ","a","u","t","h","e","n","t","i","c","a","t","e"," ","w","i","t","h"," ","S","p","o","t","i","f","y">>)

\* The error of a search answered with a non-success status (line 98).
SearchFailedError(response) ==
  JsError(<<"S","p","o","t","i","f","y"," ","s","e","a","r","c","h"," ","f","a","i","l","e","d",":"," ">>
          \o response.status \o <<" ">> \o response.statusText)

\* The catch of findMusicByEmotion swallowing the error: nothing is thrown.
findMusicErrorSwallowed(emotion, error) == Undefined

\* The error the catch of findMusicByEmotion throws (line 114).
findMusicError(emotion, error) ==
  JsError(<<"F","a","i","l","e","d"," ","t","o"," ","f","i","n","d"," ","m","u","s","i","c"," ","f","o","r"," ","e","m","o","t","i","o","n"," ","\"">>
          \o toString(emotion) \o <<"\"",":"," ">>
          \o messageOr(error, <<"U","n","k","n","o","w","n"," ","e","r","r","o","r">>))

\* The step tagging with only its first test kept.
stepOfHuggingFaceOnly(errorMessage) ==
  IF includes(errorMessage, <<"H","u","g","g","i","n","g"," ","F","a","c","e">>)
    THEN "vibe"
  ELSE IF includes(errorMessage, <<"S","p","o","t","i","f","y">>)
          \/ includes(errorMessage, <<"m","u","s","i","c">>)
    THEN "music"
  ELSE "general"

\* The step createMoodMusicError tags a message with (lines 339-345).
stepOf(errorMessage) ==
  IF \/ includes(errorMessage, <<"H","u","g","g","i","n","g"," ","F","a","c","e">>)
     \/ includes(errorMessage, <<"v","i","b","e">>)
     \/ includes(errorMessage, <<"s","c","e","n","e">>)
    THEN "vibe"
  ELSE IF includes(errorMessage, <<"S","p","o","t","i","f","y">>)
          \/ includes(errorMessage, <<"m","u","s","i","c">>)
    THEN "music"
  ELSE "general"

\* MoodMusicService.createMoodMusicError
createMoodMusicError(error, processingTime) ==
  LET errorMessage ==
        messageOr(error, <<"U","n","k","n","o","w","n"," ","e","r","r","o","r"," ","o","c","c","u","r","r","e","d">>)
  IN [step |-> stepOf(errorMessage),
      message |-> errorMessage
                    \o <<" ","(","P","r","o","c","e","s","s","i","n","g"," ","t","i","m","e",":"," ">>
                    \o numberToString(processingTime) \o <<"m","s",")">>,
      originalError |-> IF error.t = "error" THEN error ELSE Undefined]

\* ------------------------------------------------------------------------
\* Inputs of the pipeline runs
\* ------------------------------------------------------------------------

\* The concurrent invocations of analyzeImageAndFindMusic.
Callers == {1, 2}

\* The clock advances in steps of 30 s.
TickSteps == {30000}

\* The clock stops after this many steps.
MaxTicks == 2

\* this.tokenExpiry = Date.now() + expires_in * 1000 - 60000
RefreshMarginMs == 60000

\* expires_in of a token answer, in seconds.
ExpiresInInputs == {90, 120}

\* The exchanges with the classification endpoint in a pipeline run: the
\* failures, and answers that resolve to a table vibe, to the default, and to
\* a property of Object.prototype.
PipelineExchanges ==
  {EncodeError, NetworkError,
   Response(FALSE, <<"5","0","3">>, <<>>, Prediction(beach, 9)),
   OkResponse(JsArr(<<>>)),
   OkResponse(Prediction(beach, 9)),
   OkResponse(Prediction(<<"c","o","n","s","t","r","u","c","t","o","r">>, 9))}

\* The message of the errors the engine raises in a pipeline run, but for the
\* call of a missing method.
FetchMessages == {<<"F","a","i","l","e","d"," ","t","o"," ","f","e","t","c","h">>}

\* The token the endpoint issues for the k-th request.
TokenText(k) == <<"t","o","k">> \o numberToString(k)

\* The exchanges with the token endpoint for the k-th request.
TokenExchanges(k) ==
  {NetworkError, Response(FALSE, <<"4","0","1">>, <<>>, Null)}
    \cup {OkResponse(JsObj([access_token |-> JsStr(TokenText(k)),
                            expires_in |-> JsNum(e)])) : e \in ExpiresInInputs}

\* Longest search result of a pipeline run.
MaxSearchTracks == 2

\* The exchanges with the search endpoint.
SearchExchanges ==
  {NetworkError, Response(FALSE, <<"5","0","3">>, <<>>, Null), OkResponse(Null)}
    \cup {OkResponse(JsObj([tracks |-> JsObj([items |-> Tracks(n)])])) :
            n \in 0..MaxSearchTracks}

\* A feature answer that ranks the second track of a 'calm' search first.
ReorderingFeatures ==
  JsObj([audio_features |->
           JsArr(<<JsObj([acousticness |-> 2]), JsObj([acousticness |-> 8])>>)])

\* The exchanges with the audio-feature endpoint in a pipeline run.
PipelineFeatureExchanges ==
  {NetworkError,
   Response(FALSE, <<"5","0","3">>, <<>>, ReorderingFeatures),
   OkResponse(ReorderingFeatures)}

\* ------------------------------------------------------------------------
\* SpotifyService: getAccessToken, searchTracks, getRecommendations
\* ------------------------------------------------------------------------

\* Date.now() during a call of SpotifyService, in milliseconds.
CallTime == 1000

\* What a SpotifyService method comes to: what it returned or threw, the
\* requests it sent in order, and the token cache it leaves.
Settle(result, calls, cache) == [outcome |-> result, calls |-> calls, cache |-> cache]

\* The error of a rejected fetch, of json() and of reading a property of
\* undefined, as the engine raises it.
EngineError == JsError(<<"TypeError">>)

\* SpotifyService.getAccessToken (part_006, lines 74-101): the cached token,
\* or one request to the token endpoint.
spotifyGetAccessToken(cache, configured, exchange) ==
  IF Truthy(cache.accessToken) /\ CallTime < cache.tokenExpiry
    THEN Settle(Return(cache.accessToken), <<>>, cache)
  ELSE IF ~configured
    THEN Settle(Throw(JsError(<<"Spotify API credentials not configured. Please add VITE_SPOTIFY_CLIENT_ID and VITE_SPOTIFY_CLIENT_SECRET to your environment variables.">>)),
                <<>>, cache)
  ELSE IF exchange.kind = "networkError"
    THEN Settle(Throw(EngineError), <<[endpoint |-> "token"]>>, cache)
  ELSE IF ~exchange.ok
    THEN Settle(Throw(JsError(<<"Failed to get Spotify access token">>)),
                <<[endpoint |-> "token"]>>, cache)
  ELSE IF exchange.body = InvalidJson \/ ~HasProps(exchange.body)
    THEN Settle(Throw(EngineError), <<[endpoint |-> "token"]>>, cache)
  ELSE Settle(Return(Prop(exchange.body, "access_token")),
              <<[endpoint |-> "token"]>>,
              [accessToken |-> Prop(exchange.body, "access_token"),
               tokenExpiry |-> CallTime + (Prop(exchange.body, "expires_in").num * 1000)
                                 - RefreshMarginMs])

\* const genreMap
genreMap ==
  [happy |-> <<"pop", "dance", "funk", "disco">>,
   energetic |-> <<"rock", "electronic", "hip-hop", "punk">>,
   calm |-> <<"ambient", "classical", "jazz", "acoustic">>,
   romantic |-> <<"r&b", "soul", "indie", "folk">>,
   melancholy |-> <<"indie", "alternative", "blues", "folk">>,
   mysterious |-> <<"ambient", "electronic", "dark", "experimental">>]

\* Array.prototype.slice(0, n)
slice(list, n) == SubSeq(list, 1, IF Len(list) < n THEN Len(list) ELSE n)

\* Array.prototype.join: the pieces of the joined text.
RECURSIVE join(_, _)
join(list, separator) ==
  IF Len(list) = 0 THEN <<>>
  ELSE IF Len(list) = 1 THEN <<list[1]>>
  ELSE <<list[1], separator>> \o join(Tail(list), separator)

\* SpotifyService.tagsToSearchQuery
tagsToSearchQuery(tags, emotion) ==
  LET genres == IF emotion \in DOMAIN genreMap THEN genreMap[emotion] ELSE genreMap.calm
      searchTerms == slice(tags, 3) \o slice(genres, 2)
  IN join(searchTerms, " ")

\* track => ({id, title, artist, src, duration, emotion, ...})
toMusicTrack(track, emotion) ==
  [id |-> track.id,
   title |-> track.name,
   artist |-> join(track.artists, ", "),
   src |-> JsOr(track.preview_url, JsStr(<<track.spotify>>)),
   duration |-> track.duration_ms \div 1000,
   emotion |-> emotion,
   spotifyUrl |-> track.spotify,
   albumArt |-> IF Len(track.images) > 0 THEN track.images[1] ELSE "",
   previewUrl |-> track.preview_url]

\* The tracks of an answer mapped to MusicTrack, in the answer's order.
toMusicTracks(list, emotion) == [i \in 1..Len(list) |-> toMusicTrack(list[i], emotion)]

\* SpotifyService.searchTracks (part_006, lines 123-158); its catch rethrows.
searchTracks(tags, emotion, limit, cache, configured, tokenExchange, searchExchange) ==
  LET access == spotifyGetAccessToken(cache, configured, tokenExchange)
      request == [endpoint |-> "search", query |-> tagsToSearchQuery(tags, emotion),
                  limit |-> limit]
      calls == access.calls \o <<request>>
  IN IF access.outcome.thrown THEN access
     ELSE IF searchExchange.kind = "networkError"
       THEN Settle(Throw(EngineError), calls, access.cache)
     ELSE IF ~searchExchange.ok
       THEN Settle(Throw(JsError(<<"Failed to search Spotify tracks">>)), calls, access.cache)
     ELSE IF ~HasProps(searchExchange.body) \/ searchExchange.body = InvalidJson
       THEN Settle(Throw(EngineError), calls, access.cache)
     ELSE IF Prop(Prop(searchExchange.body, "tracks"), "items").t # "array"
       THEN Settle(Throw(EngineError), calls, access.cache)
     ELSE Settle(Return(toMusicTracks(Prop(Prop(searchExchange.body, "tracks"), "items").items,
                                      emotion)),
                 calls, access.cache)

\* The status check of the recommendations left out.
RecommendationsOkAlways(response) == TRUE

\* if (!response.ok) return this.searchTracks(...)       (line 192)
RecommendationsOk(response) == response.ok

\* const audioFeatures: the targets sent to the recommendation endpoint.
audioFeatures ==
  [happy |-> [valence |-> 8, energy |-> 7, danceability |-> 6],
   energetic |-> [valence |-> 6, energy |-> 9, danceability |-> 7],
   calm |-> [valence |-> 4, energy |-> 2, acousticness |-> 7],
   romantic |-> [valence |-> 6, energy |-> 4, acousticness |-> 5],
   melancholy |-> [valence |-> 2, energy |-> 3, acousticness |-> 6],
   mysterious |-> [valence |-> 3, energy |-> 4, instrumentalness |-> 6]]

\* SpotifyService.getRecommendations (part_006, lines 161-215).  The exchanges
\* are those of the first token request, of the recommendation request, and
\* of the token and the search request of the fallback.
getRecommendations(tags, emotion, limit, cache, configured, exchanges) ==
  LET access == spotifyGetAccessToken(cache, configured, exchanges.token)
      targets == IF emotion \in DOMAIN audioFeatures
                   THEN audioFeatures[emotion] ELSE audioFeatures.calm
      request == [endpoint |-> "recommendations", limit |-> limit, targets |-> targets]
      calls == access.calls \o <<request>>
      fallback(sent) ==
        LET search == searchTracks(tags, emotion, limit, access.cache, configured,
                                   exchanges.fallbackToken, exchanges.search)
        IN Settle(search.outcome, sent \o search.calls, search.cache)
      answer == exchanges.recommendations
  IN IF access.outcome.thrown THEN fallback(access.calls)
     ELSE IF answer.kind = "networkError" THEN fallback(calls)
     ELSE IF ~RecommendationsOk(answer) THEN fallback(calls)
     ELSE IF answer.body = InvalidJson \/ ~HasProps(answer.body) THEN fallback(calls)
     ELSE IF Prop(answer.body, "tracks").t # "array" THEN fallback(calls)
     ELSE Settle(Return(toMusicTracks(Prop(answer.body, "tracks").items, emotion)),
                 calls, access.cache)

\* Inputs of SpotifyService ---------------------------------------------

\* Longest track list an answer of the vendor carries.
MaxVendorTracks == 2

\* The i-th track of the vendor's catalogue; the odd ones have a preview.
SpotifyTrack(i) ==
  [id |-> numberToString(i),
   name |-> "song",
   artists |-> IF i = 1 THEN <<"Ann", "Bob">> ELSE <<"Cy">>,
   preview_url |-> IF i % 2 = 1 THEN JsStr(<<"preview">>) ELSE Null,
   spotify |-> "https://open.spotify.com/track",
   duration_ms |-> 200500 + i,
   images |-> IF i = 1 THEN <<"cover">> ELSE <<>>]

\* The track lists of the answers: the first n of the catalogue from `first`.
VendorTracks(first, n) == JsArr([i \in 1..n |-> SpotifyTrack(first + i - 1)])

\* The token caches a call starts with: empty, valid, expired.
CacheInputs ==
  {[accessToken |-> Null, tokenExpiry |-> 0],
   [accessToken |-> JsStr(TokenText(0)), tokenExpiry |-> CallTime + 1],
   [accessToken |-> JsStr(TokenText(0)), tokenExpiry |-> CallTime]}

\* The answers of the token endpoint to the k-th request of a call: a token
\* that outlives the refresh margin, and one that does not.
SpotifyTokenExchanges(k) ==
  {NetworkError, Response(FALSE, <<"4","0","1">>, <<>>, Null)}
    \cup {OkResponse(JsObj([access_token |-> JsStr(TokenText(k)),
                            expires_in |-> JsNum(e)])) : e \in {30, 3600}}

\* The answers of the recommendation endpoint; the 404 carries tracks, which
\* a fallback must not return.
RecommendationExchanges ==
  {NetworkError, OkResponse(InvalidJson), OkResponse(JsObj([error |-> JsNum(1)])),
   Response(FALSE, <<"4","0","4">>, <<>>, JsObj([tracks |-> VendorTracks(1, 1)]))}
    \cup {OkResponse(JsObj([tracks |-> VendorTracks(1, n)])) : n \in 0..MaxVendorTracks}

\* The answers of the search endpoint.
SpotifySearchExchanges ==
  {NetworkError, Response(FALSE, <<"5","0","3">>, <<>>, Null), OkResponse(Null)}
    \cup {OkResponse(JsObj([tracks |-> JsObj([items |-> VendorTracks(2, n)])])) :
            n \in 0..MaxVendorTracks}

\* The tags, emotions and limits asked for.
TagInputs == {<<>>, <<"sunny", "Beach", "sky", "water">>}
EmotionInputs == {"happy", "mysterious"}
LimitInputs == {8, 10}

\* ------------------------------------------------------------------------
\* AIService.mapTagsToEmotion
\* ------------------------------------------------------------------------

mysterious == <<"m","y","s","t","e","r","i","o","u","s">>

\* const tagEmotionMap
tagEmotionMap ==
  (<<"b","r","i","g","h","t">> :> happy) @@
  (<<"c","o","l","o","r","f","u","l">> :> happy) @@
  (<<"v","i","b","r","a","n","t">> :> energetic) @@
  (<<"s","u","n","n","y">> :> happy) @@
  (<<"c","h","e","e","r","f","u","l">> :> happy) @@
  (<<"l","i","v","e","l","y">> :> energetic) @@
  (<<"d","y","n","a","m","i","c">> :> energetic) @@
  (<<"a","c","t","i","v","e">> :> energetic) @@
  (<<"f","e","s","t","i","v","e">> :> happy) @@
  (<<"c","e","l","e","b","r","a","t","i","o","n">> :> happy) @@
  (<<"p","e","a","c","e","f","u","l">> :> calm) @@
  (<<"s","e","r","e","n","e">> :> calm) @@
  (<<"t","r","a","n","q","u","i","l">> :> calm) @@
  (<<"q","u","i","e","t">> :> calm) @@
  (<<"s","o","f","t">> :> calm) @@
  (<<"g","e","n","t","l","e">> :> calm) @@
  (<<"r","e","l","a","x","i","n","g">> :> calm) @@
  (<<"n","a","t","u","r","e">> :> calm) @@
  (<<"w","a","t","e","r">> :> calm) @@
  (<<"s","k","y">> :> calm) @@
  (<<"c","l","o","u","d","s">> :> calm) @@
  (<<"r","o","m","a","n","t","i","c">> :> romantic) @@
  (<<"i","n","t","i","m","a","t","e">> :> romantic) @@
  (<<"w","a","r","m">> :> romantic) @@
  (<<"c","o","z","y">> :> romantic) @@
  (<<"s","u","n","s","e","t">> :> romantic) @@
  (<<"f","l","o","w","e","r","s">> :> romantic) @@
  (<<"c","o","u","p","l","e">> :> romantic) @@
  (<<"l","o","v","e">> :> romantic) @@
  (<<"d","a","r","k">> :> melancholy) @@
  (<<"m","o","o","d","y">> :> melancholy) @@
  (<<"r","a","i","n">> :> melancholy) @@
  (<<"g","r","e","y">> :> melancholy) @@
  (<<"s","a","d">> :> melancholy) @@
  (<<"l","o","n","e","l","y">> :> melancholy) @@
  (<<"e","m","p","t","y">> :> melancholy) @@
  (<<"m","y","s","t","e","r","i","o","u","s">> :> mysterious) @@
  (<<"s","h","a","d","o","w">> :> mysterious) @@
  (<<"n","i","g","h","t">> :> mysterious) @@
  (<<"f","o","g">> :> mysterious) @@
  (<<"s","i","l","h","o","u","e","t","t","e">> :> mysterious) @@
  (<<"a","b","s","t","r","a","c","t">> :> mysterious)

\* The value of a counter that was incremented from undefined.
NaN == [t |-> "nan"]

\* const emotionScores: the entries in the order of the literal.
emotionScores ==
  <<[key |-> happy, value |-> JsNum(0)], [key |-> calm, value |-> JsNum(0)],
    [key |-> energetic, value |-> JsNum(0)], [key |-> romantic, value |-> JsNum(0)],
    [key |-> melancholy, value |-> JsNum(0)], [key |-> mysterious, value |-> JsNum(0)]>>

\* x++ of a property value: undefined and NaN become NaN.
increment(x) == IF x.t = "number" THEN JsNum(x.num + 1) ELSE NaN

\* scores[key]++ for a property key: an own property is incremented in
\* place, a missing one is added after the others with the value NaN.
incrementAt(scores, key) ==
  IF \E i \in 1..Len(scores) : scores[i].key = key
    THEN [i \in 1..Len(scores) |->
            IF scores[i].key = key
              THEN [key |-> key, value |-> increment(scores[i].value)]
              ELSE scores[i]]
    ELSE Append(scores, [key |-> key, value |-> NaN])

\* The body of tags.forEach: the table is read with the lowercased tag and
\* a truthy value is counted under its property key (`${emotion}`).
countTag(scores, tag) ==
  LET emotion == GetProperty([k \in DOMAIN tagEmotionMap |-> JsStr(tagEmotionMap[k])],
                             toLowerCase(tag))
  IN IF Truthy(emotion) THEN incrementAt(scores, toString(emotion)) ELSE scores

\* tags.forEach(...)
RECURSIVE countTags(_, _)
countTags(scores, tags) ==
  IF Len(tags) = 0 THEN scores
  ELSE countTags(countTag(scores, Head(tags)), Tail(tags))

\* (a, b) => a[1] > b[1] ? a : b; a comparison with NaN is false.
keepGreater(a, b) ==
  IF a.value.t = "number" /\ b.value.t = "number" /\ a.value.num > b.value.num
    THEN a ELSE b

\* Object.entries(emotionScores).reduce(...) from the entry `a` on.
RECURSIVE reduce(_, _)
reduce(a, entries) ==
  IF Len(entries) = 0 THEN a
  ELSE reduce(keepGreater(a, Head(entries)), Tail(entries))

\* AIService.mapTagsToEmotion
mapTagsToEmotion(tags) ==
  LET scores == countTags(emotionScores, tags)
      maxEmotion == reduce(Head(scores), Tail(scores))
  IN IF maxEmotion.value.t = "number" /\ maxEmotion.value.num > 0
       THEN maxEmotion.key ELSE calm

\* Inputs of mapTagsToEmotion --------------------------------------------

\* Longest list of tags.
MaxTags == 3

\* The tags: of the table in both letter cases, of no entry, and named like
\* a property of Object.prototype.
TagWords ==
  {<<"s","u","n","n","y">>, <<"S","u","n","n","y">>, <<"v","i","b","r","a","n","t">>,
   <<"F","O","G">>, <<"s","k","y">>, <<"p","l","a","i","d">>,
   <<"c","o","n","s","t","r","u","c","t","o","r">>}

TagLists == UNION {[1..n -> TagWords] : n \in 0..MaxTags}

\* ------------------------------------------------------------------------
\* AIService.getRecommendationsFromTags
\* ------------------------------------------------------------------------

\* An EmotionType as SpotifyService's tables are keyed by it.
emotionName ==
  (happy :> "happy") @@ (calm :> "calm") @@ (energetic :> "energetic") @@
  (romantic :> "romantic") @@ (melancholy :> "melancholy") @@
  (mysterious :> "mysterious")

\* const trackDatabase
trackDatabase ==
  (calm :> JsArr(<<
      [id |-> "calm-1", title |-> "Ocean Waves", artist |-> "Nature Sounds", src |-> JsStr(<<>>),
       duration |-> 180, emotion |-> "calm"],
      [id |-> "calm-2", title |-> "Peaceful Morning", artist |-> "Ambient Dreams", src |-> JsStr(<<>>),
       duration |-> 240, emotion |-> "calm"]>>)) @@
  (energetic :> JsArr(<<
      [id |-> "energetic-1", title |-> "Electric Night", artist |-> "Synth Wave", src |-> JsStr(<<>>),
       duration |-> 200, emotion |-> "energetic"],
      [id |-> "energetic-2", title |-> "Dance Floor", artist |-> "Beat Makers", src |-> JsStr(<<>>),
       duration |-> 190, emotion |-> "energetic"]>>)) @@
  (romantic :> JsArr(<<
      [id |-> "romantic-1", title |-> "By Your Side", artist |-> "Love Songs", src |-> JsStr(<<>>),
       duration |-> 220, emotion |-> "romantic"],
      [id |-> "romantic-2", title |-> "Candlelight Serenade", artist |-> "Jazz Romance", src |-> JsStr(<<>>),
       duration |-> 280, emotion |-> "romantic"]>>)) @@
  (happy :> JsArr(<<
      [id |-> "happy-1", title |-> "Sunshine Day", artist |-> "Feel Good", src |-> JsStr(<<>>),
       duration |-> 165, emotion |-> "happy"],
      [id |-> "happy-2", title |-> "Good Vibes Only", artist |-> "Positive Energy", src |-> JsStr(<<>>),
       duration |-> 175, emotion |-> "happy"]>>)) @@
  (melancholy :> JsArr(<<
      [id |-> "melancholy-1", title |-> "Rainy Days", artist |-> "Moody Blues", src |-> JsStr(<<>>),
       duration |-> 210, emotion |-> "melancholy"]>>)) @@
  (mysterious :> JsArr(<<
      [id |-> "mysterious-1", title |-> "Night Whispers", artist |-> "Dark Ambient", src |-> JsStr(<<>>),
       duration |-> 300, emotion |-> "mysterious"]>>))

\* AIService.getRecommendedTracks: trackDatabase[emotion] || trackDatabase.calm
getRecommendedTracks(emotion) ==
  JsOr(GetProperty(trackDatabase, emotion), trackDatabase[calm])

\* The test of the vendor's list left out: whatever it returns is returned.
HasTracksAlways(spotifyTracks) == TRUE

\* if (spotifyTracks.length > 0)
HasTracks(spotifyTracks) == Len(spotifyTracks) > 0

\* AIService.getRecommendationsFromTags; the tags reach the vendor's query
\* as they are, the limit is 8.
getRecommendationsFromTags(tags, cache, configured, exchanges) ==
  LET emotion == mapTagsToEmotion(tags)
      spotify == getRecommendations(tags, emotionName[emotion], 8, cache, configured,
                                    exchanges)
  IN IF ~spotify.outcome.thrown /\ HasTracks(spotify.outcome.value)
       THEN Settle(Return([emotion |-> emotion,
                           tracks |-> JsArr(spotify.outcome.value)]),
                   spotify.calls, spotify.cache)
       ELSE Settle(Return([emotion |-> emotion, tracks |-> getRecommendedTracks(emotion)]),
                   spotify.calls, spotify.cache)

\* The tag lists recommendations are asked for: none, of one emotion, of no
\* entry, of two emotions, and with a tag named like an inherited property.
FromTagsInputs ==
  {<<>>,
   <<<<"S","u","n","n","y">>>>,
   <<<<"p","l","a","i","d">>>>,
   <<<<"F","O","G">>, <<"v","i","b","r","a","n","t">>, <<"F","O","G">>>>,
   <<<<"F","O","G">>, <<"c","o","n","s","t","r","u","c","t","o","r">>>>}

\* ------------------------------------------------------------------------
\* State
\* ------------------------------------------------------------------------

VARIABLES
  fn,   \* the function a direct call applied ("none" before the call)
  arg,  \* the argument of that call
  ret   \* what the call returned or threw

VARIABLES
  now,            \* Date.now(), in milliseconds
  accessToken,    \* MusicService.accessToken
  tokenExpiry,    \* MusicService.tokenExpiry
  pc,             \* per run: where analyzeImageAndFindMusic stands
  startTime,      \* per run: startTime
  vibe,           \* per run: what analyzeImageVibe returned or threw
  emotion,        \* per run: the argument of findMusicByEmotion
  token,          \* per run: the token getAccessToken returned
  tracks,         \* per run: data.tracks.items of the search
  features,       \* per run: the exchange with the audio-feature endpoint
  outcome         \* per run: the MoodMusicResult returned or the error thrown

\* What was observed of the runs (no state of the program).
VARIABLES
  tokenRequests,  \* requests sent to the token endpoint so far
  requests,       \* per run: the calls made and the requests sent
  seen,           \* per run: the token cache and the clock when getAccessToken was entered
  answers         \* per run: the exchanges with the token and the search endpoint

\* PhotoUpload: the state of the component and of one handleUpload run.
VARIABLES
  isOpen,              \* the dialog is open
  uploadSelectedFile,  \* selectedFile: a file is selected
  uploading,           \* uploading
  uploadProgress,      \* uploadProgress
  progressInterval,    \* the interval of handleUpload is running
  retryCount,          \* retryCount of the run
  lastError,           \* lastError of the run
  uploadPc,            \* where the run stands
  toast                \* the last toast shown

\* What was observed of the run (no state of the program).
VARIABLES
  uploadCalls,         \* calls of photoService.uploadPhoto so far
  uploadSettled        \* what the last call of uploadPhoto came to

uploadVars ==
  <<isOpen, uploadSelectedFile, uploading, uploadProgress, progressInterval,
    retryCount, lastError, uploadPc, toast, uploadCalls, uploadSettled>>

\* MoodAnalyzer: the state of the component and of its handleAnalyze runs.
VARIABLES
  analyzerSelectedFile,  \* selectedFile: a file is selected
  isAnalyzing,           \* isAnalyzing
  analysisStep,          \* analysisStep
  analysisResult,        \* result
  analyzerError,         \* error
  pendingTimers,         \* the progress timers started and not yet fired
  analysisPc,            \* where handleAnalyze stands
  analyses               \* the runs of handleAnalyze started so far

analyzerVars ==
  <<analyzerSelectedFile, isAnalyzing, analysisStep, analysisResult, analyzerError,
    pendingTimers, analysisPc, analyses>>

\* useAudioPlayer: the state of the hook and of the audio element.
VARIABLES
  playerSrc,     \* the src prop
  isPlaying,     \* state.isPlaying
  playerError,   \* state.error
  currentTime,   \* state.currentTime
  duration,      \* state.duration
  volume,        \* state.volume, in tenths
  audioSrc,      \* audio.src
  listening,     \* the listeners of the effect are attached
  playPromise    \* the promise of audio.play() awaited by play

playerVars ==
  <<playerSrc, isPlaying, playerError, currentTime, duration, volume, audioSrc,
    listening, playPromise>>

\* Index: the state of the page and the deletions in flight.
VARIABLES
  loading,         \* loading
  images,          \* images
  selectedImage,   \* selectedImage
  deletions,       \* the handleDeleteImage calls awaiting deletePhoto
  uploadedPhotos,  \* the photos handleUploadSuccess has added so far
  deleteSettled    \* what the last deletePhoto awaited came to, and for which photo

indexVars == <<loading, images, selectedImage, deletions, uploadedPhotos, deleteSettled>>

\* SingleImageView: the tags, the recommendation shown, the requests in
\* flight.
VARIABLES
  geminiTags,         \* geminiTags
  detectedEmotion,    \* detectedEmotion
  recommendedTracks,  \* recommendedTracks
  tagRequests,        \* the getRecommendationsFromTags calls awaited
  tagEdits            \* the calls of addTag and removeTag so far

viewVars == <<geminiTags, detectedEmotion, recommendedTracks, tagRequests, tagEdits>>

\* The state of the components.
uiVars == <<uploadVars, analyzerVars, playerVars, indexVars, viewVars>>

fnVars == <<fn, arg, ret>>
serviceVars ==
  <<now, accessToken, tokenExpiry, pc, startTime, vibe, emotion, token, tracks,
    features, outcome, tokenRequests, requests, seen, answers>>
vars == <<fnVars, serviceVars, uiVars>>

\* What the steps of one component leave alone.
otherThanUpload == <<fnVars, serviceVars, analyzerVars, playerVars, indexVars, viewVars>>
otherThanAnalyzer == <<fnVars, serviceVars, uploadVars, playerVars, indexVars, viewVars>>
otherThanPlayer == <<fnVars, serviceVars, uploadVars, analyzerVars, indexVars, viewVars>>
otherThanIndex == <<fnVars, serviceVars, uploadVars, analyzerVars, playerVars, viewVars>>
otherThanView == <<fnVars, serviceVars, uploadVars, analyzerVars, playerVars, indexVars>>

\* The services as constructed: no token cached, no run started.
InitService ==
  /\ now = 0
  /\ accessToken = Null
  /\ tokenExpiry = 0
  /\ pc = [c \in Callers |-> "idle"]
  /\ startTime = [c \in Callers |-> 0]
  /\ vibe = [c \in Callers |-> Undefined]
  /\ emotion = [c \in Callers |-> Undefined]
  /\ token = [c \in Callers |-> Undefined]
  /\ tracks = [c \in Callers |-> <<>>]
  /\ features = [c \in Callers |-> Undefined]
  /\ outcome = [c \in Callers |-> Undefined]
  /\ tokenRequests = 0
  /\ requests = [c \in Callers |->
                   [classifier |-> 0, matcher |-> 0, token |-> 0,
                    search |-> 0, features |-> 0]]
  /\ seen = [c \in Callers |-> Undefined]
  /\ answers = [c \in Callers |-> [token |-> Undefined, search |-> Undefined]]

\* PhotoUpload as mounted: the dialog closed, no file selected.
InitUpload ==
  /\ isOpen = FALSE
  /\ uploadSelectedFile = FALSE
  /\ uploading = FALSE
  /\ uploadProgress = 0
  /\ progressInterval = FALSE
  /\ retryCount = 0
  /\ lastError = Undefined
  /\ uploadPc = "idle"
  /\ toast = Undefined
  /\ uploadCalls = 0
  /\ uploadSettled = Undefined

\* MoodAnalyzer as mounted (MoodAnalyzer.tsx, lines 17-22).
InitAnalyzer ==
  /\ analyzerSelectedFile = FALSE
  /\ isAnalyzing = FALSE
  /\ analysisStep = "idle"
  /\ analysisResult = Null
  /\ analyzerError = Null
  /\ pendingTimers = 0
  /\ analysisPc = "idle"
  /\ analyses = 0

\* useAudioPlayer as mounted without a src; the effect has not run yet.
InitPlayer ==
  /\ playerSrc = Null
  /\ isPlaying = FALSE
  /\ playerError = FALSE
  /\ currentTime = 0
  /\ duration = 0
  /\ volume = 7
  /\ audioSrc = Null
  /\ listening = FALSE
  /\ playPromise = "none"

\* Index as mounted: loadPhotos is awaited.
InitIndex ==
  /\ loading = TRUE
  /\ images = <<>>
  /\ selectedImage = Null
  /\ deletions = {}
  /\ uploadedPhotos = 0
  /\ deleteSettled = Undefined

\* SingleImageView as mounted for an image without tags.
InitView ==
  /\ geminiTags = <<>>
  /\ detectedEmotion = Null
  /\ recommendedTracks = JsArr(<<>>)
  /\ tagRequests = {}
  /\ tagEdits = 0

\* The components as mounted.
InitUi == InitUpload /\ InitAnalyzer /\ InitPlayer /\ InitIndex /\ InitView

\* No direct call made.
InitDirect ==
  /\ fn = "none"
  /\ arg = Undefined
  /\ ret = Undefined

\* ------------------------------------------------------------------------
\* Direct calls of the pure functions
\* ------------------------------------------------------------------------

InitFn == InitDirect /\ InitService /\ InitUi

CallMapSceneToVibe ==
  /\ fn = "none"
  /\ \E scene \in SceneInputs :
       /\ fn' = "mapSceneToVibe"
       /\ arg' = scene
       /\ ret' = mapSceneToVibe(scene)
  /\ UNCHANGED <<serviceVars, uiVars>>

CallGetEmotionSearchParams ==
  /\ fn = "none"
  /\ \E mood \in MoodInputs, m \in NotAFunctionMessages :
       /\ fn' = "getEmotionSearchParams"
       /\ arg' = mood
       /\ ret' = getEmotionSearchParams(JsStr(mood), m)
  /\ UNCHANGED <<serviceVars, uiVars>>

CallGetEmotionCriteria ==
  /\ fn = "none"
  /\ \E mood \in MoodInputs, m \in NotAFunctionMessages :
       /\ fn' = "getEmotionCriteria"
       /\ arg' = mood
       /\ ret' = getEmotionCriteria(JsStr(mood), m)
  /\ UNCHANGED <<serviceVars, uiVars>>

\* One classification of an image, for every exchange with the endpoint.
CallAnalyzeImageVibe ==
  /\ fn = "none"
  /\ \E exchange \in ClassifierExchanges, m \in EngineMessages :
       /\ fn' = "analyzeImageVibe"
       /\ arg' = exchange
       /\ ret' = analyzeImageVibe(exchange, m)
  /\ UNCHANGED <<serviceVars, uiVars>>

\* The same prediction answered in the two shapes of the vendor: as a single
\* object and as a one-element array.
CallAnalyzeImageVibeBothShapes ==
  /\ fn = "none"
  /\ \E L \in LabelInputs, S \in ScoreInputs, m \in EngineMessages :
       /\ fn' = "analyzeImageVibe: both shapes"
       /\ arg' = Prediction(L, S)
       /\ ret' = [single |-> analyzeImageVibe(OkResponse(Prediction(L, S)), m),
                  array |-> analyzeImageVibe(OkResponse(JsArr(<<Prediction(L, S)>>)), m)]
  /\ UNCHANGED <<serviceVars, uiVars>>

\* One ranking of a search result of n tracks.
CallFilterTracksByEmotion ==
  /\ fn = "none"
  /\ \E n \in 0..MaxTracks, emo \in RankEmotions, m \in NotAFunctionMessages :
       \E exchange \in FeatureExchanges(n) :
         /\ fn' = "filterTracksByEmotion"
         /\ arg' = [tracks |-> Tracks(n), emotion |-> emo, exchange |-> exchange]
         /\ ret' = filterTracksByEmotion(Tracks(n), emo, exchange, m)
  /\ UNCHANGED <<serviceVars, uiVars>>

\* ------------------------------------------------------------------------
\* Configuration: the constructors, validateConfiguration, handleAnalyze
\* ------------------------------------------------------------------------

\* const requiredVars = [...]
requiredVars ==
  <<"VITE_HUGGINGFACE_API_TOKEN", "VITE_SPOTIFY_CLIENT_ID", "VITE_SPOTIFY_CLIENT_SECRET">>

\* import.meta.env: every setting is absent, empty, or holds a value.
EnvInputs ==
  [{requiredVars[i] : i \in 1..Len(requiredVars)} ->
     {Undefined, JsStr(<<>>), JsStr(<<"k">>)}]

\* requiredVars.filter(varName => !import.meta.env[varName])
missingVarsOf(env) == SelectSeq(requiredVars, LAMBDA varName : ~Truthy(env[varName]))

\* MoodMusicService.validateConfiguration
validateConfiguration(env) ==
  [isValid |-> Len(missingVarsOf(env)) = 0, missingVars |-> missingVarsOf(env)]

\* new EmotionDetectionService(), evaluated when the module is loaded.
newEmotionDetectionService(env) ==
  IF ~Truthy(env["VITE_HUGGINGFACE_API_TOKEN"])
    THEN Throw(JsError(<<"Missing VITE_HUGGINGFACE_API_TOKEN environment variable">>))
    ELSE Return(JsObj([apiToken |-> env["VITE_HUGGINGFACE_API_TOKEN"]]))

\* new MusicService(), evaluated when the module is loaded.
newMusicService(env) ==
  IF ~Truthy(env["VITE_SPOTIFY_CLIENT_ID"]) \/ ~Truthy(env["VITE_SPOTIFY_CLIENT_SECRET"])
    THEN Throw(JsError(<<"Missing Spotify API credentials. Please set VITE_SPOTIFY_CLIENT_ID and VITE_SPOTIFY_CLIENT_SECRET">>))
    ELSE Return(JsObj([clientId |-> env["VITE_SPOTIFY_CLIENT_ID"],
                       clientSecret |-> env["VITE_SPOTIFY_CLIENT_SECRET"]]))

\* The evaluation of the module of MoodMusicService, which MoodAnalyzer
\* imports: its two imports are evaluated in order, each constructing its
\* service; an error thrown by a constructor ends the evaluation.
loadMoodMusicService(env) ==
  IF newEmotionDetectionService(env).thrown THEN newEmotionDetectionService(env)
  ELSE IF newMusicService(env).thrown THEN newMusicService(env)
  ELSE Return(JsObj([moodMusicService |-> JsObj(<<>>)]))

\* MoodAnalyzer.handleAnalyze up to the call of the pipeline: the error and
\* the toast it records, and whether analyzeImageAndFindMusic is called.
handleAnalyze(selectedFile, env) ==
  IF ~selectedFile
    THEN [toast |-> <<"Please select an image first">>, error |-> Null,
          isAnalyzing |-> FALSE, pipelineStarted |-> FALSE]
  ELSE IF ~validateConfiguration(env).isValid
    THEN [toast |-> <<>>,
          error |-> JsStr(<<"Missing API keys: ">>
                            \o join(validateConfiguration(env).missingVars, ", ")),
          isAnalyzing |-> FALSE, pipelineStarted |-> FALSE]
  ELSE [toast |-> <<"Analyzing vibe from your image...">>, error |-> Null,
        isAnalyzing |-> TRUE, pipelineStarted |-> TRUE]

\* The application is loaded under a configuration and the user asks for the
\* analysis, with or without an image selected.
CallHandleAnalyze ==
  /\ fn = "none"
  /\ \E env \in EnvInputs, selectedFile \in BOOLEAN :
       /\ fn' = "handleAnalyze"
       /\ arg' = [env |-> env, selectedFile |-> selectedFile]
       /\ ret' = IF loadMoodMusicService(env).thrown
                   THEN loadMoodMusicService(env)
                   ELSE Return(handleAnalyze(selectedFile, env))
  /\ UNCHANGED <<serviceVars, uiVars>>

\* One call of getRecommendations, for every token cache and every answer of
\* the three endpoints.
CallGetRecommendations ==
  /\ fn = "none"
  /\ \E tags \in TagInputs, emo \in EmotionInputs, limit \in LimitInputs,
        cache \in CacheInputs, configured \in BOOLEAN,
        first \in SpotifyTokenExchanges(1), second \in SpotifyTokenExchanges(2),
        recommended \in RecommendationExchanges, found \in SpotifySearchExchanges :
       LET exchanges == [token |-> first, recommendations |-> recommended,
                         fallbackToken |-> second, search |-> found]
       IN /\ fn' = "getRecommendations"
          /\ arg' = [tags |-> tags, emotion |-> emo, limit |-> limit, cache |-> cache,
                     configured |-> configured, exchanges |-> exchanges]
          /\ ret' = getRecommendations(tags, emo, limit, cache, configured, exchanges)
  /\ UNCHANGED <<serviceVars, uiVars>>

\* One call of getRecommendationsFromTags, for every token cache and every
\* answer of the three endpoints.
CallGetRecommendationsFromTags ==
  /\ fn = "none"
  /\ \E tags \in FromTagsInputs, cache \in CacheInputs, configured \in BOOLEAN,
        first \in SpotifyTokenExchanges(1), second \in SpotifyTokenExchanges(2),
        recommended \in RecommendationExchanges, found \in SpotifySearchExchanges :
       LET exchanges == [token |-> first, recommendations |-> recommended,
                         fallbackToken |-> second, search |-> found]
       IN /\ fn' = "getRecommendationsFromTags"
          /\ arg' = [tags |-> tags, cache |-> cache, configured |-> configured,
                     exchanges |-> exchanges]
          /\ ret' = getRecommendationsFromTags(tags, cache, configured, exchanges)
  /\ UNCHANGED <<serviceVars, uiVars>>

\* ------------------------------------------------------------------------
\* photoService.uploadPhoto
\* ------------------------------------------------------------------------

\* What a call of the storage or database client resolves with.
Result(data, err) == [data |-> data, error |-> err]

\* The bucket and the photos table: the paths of the files stored and the
\* file paths of the photo records.
Store(files, records) == [files |-> files, records |-> records]

\* `${(await user).data.user?.id}/${fileName}`
filePathOf(userId, fileName) ==
  <<IF userId.t = "string" THEN userId.str ELSE <<"u","n","d","e","f","i","n","e","d">>,
    "/", fileName>>

\* The cleanup left out: the uploaded file stays.
removeSkipped(store, path, response) == store

\* storage.from('photos').remove([path]): the file is gone when the call
\* resolves without an error.
remove(store, path, response) ==
  IF Truthy(response.error) THEN store
  ELSE Store(store.files \ {path}, store.records)

\* storage.from('photos').upload(path, file): the file is stored when the
\* call resolves without an error.
upload(store, path, response) ==
  IF Truthy(response.error) THEN store
  ELSE Store(store.files \cup {path}, store.records)

\* from('photos').insert({...}): the record is stored when the call resolves
\* without an error.
insert(store, path, response) ==
  IF Truthy(response.error) THEN store
  ELSE Store(store.files, store.records \cup {path})

\* photoService.uploadPhoto: what it resolves with, the calls it made, and
\* the bucket and the table after it.  The responses are those of upload,
\* insert, remove and createSignedUrl.
uploadPhoto(userId, fileName, store, responses) ==
  LET filePath == filePathOf(userId, fileName)
      uploaded == upload(store, filePath, responses.upload)
      inserted == insert(uploaded, filePath, responses.insert)
      removed == remove(uploaded, filePath, responses.remove)
  IN IF Truthy(responses.upload.error)
       THEN [result |-> Result(Null, responses.upload.error),
             calls |-> <<"upload">>, store |-> uploaded]
     ELSE IF Truthy(responses.insert.error)
       THEN [result |-> Result(Null, responses.insert.error),
             calls |-> <<"upload", "insert", "remove">>, store |-> removed]
     ELSE IF Truthy(responses.createSignedUrl.error)
       THEN [result |-> Result(Null, EngineError),
             calls |-> <<"upload", "insert", "createSignedUrl", "getPublicUrl">>,
             store |-> inserted]
     ELSE [result |-> Result(JsObj([id |-> responses.insert.data,
                                    src |-> responses.createSignedUrl.data]), Null),
           calls |-> <<"upload", "insert", "createSignedUrl">>, store |-> inserted]

\* Inputs of uploadPhoto -------------------------------------------------

\* The signed-in user's id, and none.
UserIds == {JsStr(<<"u","7">>), Undefined}

\* The bucket and the table before the call: empty, and with a photo of an
\* earlier upload.
StoreInputs ==
  {Store({}, {}),
   Store({<<<<"u","7">>, "/", "old.jpg">>}, {<<<<"u","7">>, "/", "old.jpg">>})}

\* The responses of the client: data, or an error.
ClientResponses(data) == {Result(data, Null), Result(Null, JsObj([message |-> "failed"]))}

\* One call of uploadPhoto, for every response of the four client calls.
CallUploadPhoto ==
  /\ fn = "none"
  /\ \E userId \in UserIds, store \in StoreInputs,
        uploadResponse \in ClientResponses(JsStr(<<"p","a","t","h">>)),
        insertResponse \in ClientResponses(JsStr(<<"i","d">>)),
        removeResponse \in ClientResponses(Null),
        urlResponse \in ClientResponses(JsStr(<<"u","r","l">>)) :
       LET responses == [upload |-> uploadResponse, insert |-> insertResponse,
                         remove |-> removeResponse, createSignedUrl |-> urlResponse]
       IN /\ fn' = "uploadPhoto"
          /\ arg' = [userId |-> userId, fileName |-> "new.jpg", store |-> store,
                     responses |-> responses]
          /\ ret' = uploadPhoto(userId, "new.jpg", store, responses)
  /\ UNCHANGED <<serviceVars, uiVars>>

\* One mapping of a list of tags to an emotion.
CallMapTagsToEmotion ==
  /\ fn = "none"
  /\ \E tags \in TagLists :
       /\ fn' = "mapTagsToEmotion"
       /\ arg' = tags
       /\ ret' = mapTagsToEmotion(tags)
  /\ UNCHANGED <<serviceVars, uiVars>>

\* One scoring of a feature vector against the criteria of a mood.
CallCalculateEmotionScore ==
  /\ fn = "none"
  /\ \E vector \in ScoreVectors, criteria \in CriteriaInputs :
       /\ fn' = "calculateEmotionScore"
       /\ arg' = [features |-> vector, criteria |-> criteria]
       /\ ret' = calculateEmotionScore(vector, criteria)
  /\ UNCHANGED <<serviceVars, uiVars>>

NextFn ==
  \/ CallFilterTracksByEmotion
  \/ CallCalculateEmotionScore
  \/ CallHandleAnalyze
  \/ CallGetRecommendations
  \/ CallGetRecommendationsFromTags
  \/ CallUploadPhoto
  \/ CallMapTagsToEmotion
  \/ CallAnalyzeImageVibe
  \/ CallAnalyzeImageVibeBothShapes
  \/ CallMapSceneToVibe
  \/ CallGetEmotionSearchParams
  \/ CallGetEmotionCriteria

SpecFn == InitFn /\ [][NextFn]_vars

\* ------------------------------------------------------------------------
\* MoodMusicService.analyzeImageAndFindMusic: concurrent runs
\* ------------------------------------------------------------------------

\* The cache test with the token never taken as cached.
TokenCachedNever == FALSE

\* The cache test with the token still taken as cached at its expiry.
TokenCachedAtExpiry == Truthy(accessToken) /\ now <= tokenExpiry

\* if (this.accessToken && Date.now() < this.tokenExpiry)      (line 51)
TokenCached == Truthy(accessToken) /\ now < tokenExpiry

\* The runs whose findMusicByEmotion call has returned or thrown.
MatcherDone == {c \in Callers : pc[c] \in {"complete", "failed"} /\ requests[c].matcher > 0}

\* The catch returning what the run has so far in place of throwing.
FailedWithPartialResult(c, error) ==
  Return([vibe |-> vibe[c], music |-> Undefined, processingTime |-> now - startTime[c]])

\* The catch of analyzeImageAndFindMusic (lines 308-313).
Failed(c, error) == Throw(createMoodMusicError(error, now - startTime[c]))

\* The runs are alike: the one named first is taken to be called first.
CalledInOrder(c) == \A d \in Callers : d < c => pc[d] # "idle"

\* The call is made: startTime is taken, the image is encoded and sent.
StartRun(c) ==
  /\ pc[c] = "idle"
  /\ CalledInOrder(c)
  /\ pc' = [pc EXCEPT ![c] = "classifying"]
  /\ startTime' = [startTime EXCEPT ![c] = now]
  /\ requests' = [requests EXCEPT ![c].classifier = @ + 1]
  /\ UNCHANGED <<now, accessToken, tokenExpiry, vibe, emotion, token, tracks,
                 features, outcome, tokenRequests, seen, answers, fnVars, uiVars>>

\* analyzeImageVibe settles.  When it throws, the run fails.  When it
\* returns, findMusicByEmotion is called with the dominant emotion and enters
\* getAccessToken: the cached token is returned, or a token request is sent.
ClassifierSettles(c) ==
  /\ pc[c] = "classifying"
  /\ \E exchange \in PipelineExchanges, m \in FetchMessages :
       LET analysis == analyzeImageVibe(exchange, m)
           cached == TokenCached
       IN /\ vibe' = [vibe EXCEPT ![c] = analysis]
          /\ IF analysis.thrown
               THEN /\ pc' = [pc EXCEPT ![c] = "failed"]
                    /\ outcome' = [outcome EXCEPT ![c] = Failed(c, analysis.value)]
                    /\ UNCHANGED <<emotion, token, tokenRequests, requests, seen>>
               ELSE /\ pc' = [pc EXCEPT ![c] = IF cached THEN "tokenReady" ELSE "awaitToken"]
                    /\ emotion' = [emotion EXCEPT ![c] = analysis.value.fields.dominantEmotion]
                    /\ token' = [token EXCEPT ![c] = IF cached THEN accessToken ELSE @]
                    /\ tokenRequests' = IF cached THEN tokenRequests ELSE tokenRequests + 1
                    /\ requests' = [requests EXCEPT
                                      ![c].matcher = @ + 1,
                                      ![c].token = IF cached THEN @ ELSE @ + 1]
                    /\ seen' = [seen EXCEPT ![c] =
                                  [accessToken |-> accessToken, tokenExpiry |-> tokenExpiry,
                                   now |-> now, done |-> MatcherDone]]
                    /\ UNCHANGED outcome
  /\ UNCHANGED <<now, accessToken, tokenExpiry, startTime, tracks, features,
                 answers, fnVars, uiVars>>

\* The token request settling with a failure clearing the cache.
TokenSettlesClearingCache(c) ==
  /\ pc[c] = "awaitToken"
  /\ \E exchange \in TokenExchanges(tokenRequests) :
       /\ answers' = [answers EXCEPT ![c].token = exchange]
       /\ IF exchange.kind = "response" /\ exchange.ok /\ HasProps(exchange.body)
            THEN /\ accessToken' = Prop(exchange.body, "access_token")
                 /\ tokenExpiry' = now + (Prop(exchange.body, "expires_in").num * 1000)
                                     - RefreshMarginMs
                 /\ token' = [token EXCEPT ![c] = Prop(exchange.body, "access_token")]
                 /\ pc' = [pc EXCEPT ![c] = "tokenReady"]
                 /\ UNCHANGED outcome
            ELSE /\ pc' = [pc EXCEPT ![c] = "failed"]
                 /\ outcome' = [outcome EXCEPT ![c] =
                                  Failed(c, findMusicError(emotion[c], AuthenticationError))]
                 /\ accessToken' = Null
                 /\ tokenExpiry' = 0
                 /\ UNCHANGED token
  /\ UNCHANGED <<now, startTime, vibe, emotion, tracks, features, tokenRequests,
                 requests, seen, fnVars, uiVars>>

\* The token request settles (lines 56-77).  A failure is rethrown by
\* getAccessToken, by findMusicByEmotion and then tagged by the run.
TokenSettles(c) ==
  /\ pc[c] = "awaitToken"
  /\ \E exchange \in TokenExchanges(tokenRequests) :
       /\ answers' = [answers EXCEPT ![c].token = exchange]
       /\ IF exchange.kind = "response" /\ exchange.ok /\ HasProps(exchange.body)
            THEN /\ accessToken' = Prop(exchange.body, "access_token")
                 /\ tokenExpiry' = now + (Prop(exchange.body, "expires_in").num * 1000)
                                     - RefreshMarginMs
                 /\ token' = [token EXCEPT ![c] = Prop(exchange.body, "access_token")]
                 /\ pc' = [pc EXCEPT ![c] = "tokenReady"]
                 /\ UNCHANGED outcome
            ELSE /\ pc' = [pc EXCEPT ![c] = "failed"]
                 /\ outcome' = [outcome EXCEPT ![c] =
                                  Failed(c, findMusicError(emotion[c], AuthenticationError))]
                 /\ UNCHANGED <<accessToken, tokenExpiry, token>>
  /\ UNCHANGED <<now, startTime, vibe, emotion, tracks, features, tokenRequests,
                 requests, seen, fnVars, uiVars>>

\* With the token: the search parameters are looked up and the search is
\* sent (lines 86-95).
SendSearch(c) ==
  /\ pc[c] = "tokenReady"
  /\ \E m \in NotAFunctionMessages :
       LET searchParams == getEmotionSearchParams(emotion[c], m)
       IN IF searchParams.thrown
            THEN /\ pc' = [pc EXCEPT ![c] = "failed"]
                 /\ outcome' = [outcome EXCEPT ![c] =
                                  Failed(c, findMusicError(emotion[c], searchParams.value))]
                 /\ UNCHANGED requests
            ELSE /\ pc' = [pc EXCEPT ![c] = "awaitSearch"]
                 /\ requests' = [requests EXCEPT ![c].search = @ + 1]
                 /\ UNCHANGED outcome
  /\ UNCHANGED <<now, accessToken, tokenExpiry, startTime, vibe, emotion, token,
                 tracks, features, tokenRequests, seen, answers, fnVars, uiVars>>

\* The music recommendation findMusicByEmotion returns (lines 107-111).
Recommendation(c, filteredTracks, m) ==
  [tracks |-> filteredTracks,
   emotion |-> emotion[c],
   reasoning |-> Prop(getEmotionSearchParams(emotion[c], m).value, "reasoning")]

\* The MoodMusicResult of a run (lines 301-307).
Completed(c, music) ==
  Return([vibe |-> vibe[c].value, music |-> music,
          processingTime |-> now - startTime[c]])

\* Whether data.tracks.items of a search answer is a list of tracks.
HasTrackItems(body) ==
  /\ HasProps(body)
  /\ HasProps(Prop(body, "tracks"))
  /\ "items" \in DOMAIN Prop(body, "tracks").fields

\* The search settles (lines 97-105).  An empty result completes the run;
\* otherwise the audio features of the tracks are requested.
SearchSettles(c) ==
  /\ pc[c] = "awaitSearch"
  /\ \E exchange \in SearchExchanges, m \in FetchMessages :
       /\ answers' = [answers EXCEPT ![c].search = exchange]
       /\ IF exchange.kind = "networkError" THEN
            /\ pc' = [pc EXCEPT ![c] = "failed"]
            /\ outcome' = [outcome EXCEPT ![c] =
                             Failed(c, findMusicError(emotion[c], JsError(m)))]
            /\ UNCHANGED <<tracks, requests>>
          ELSE IF ~exchange.ok THEN
            /\ pc' = [pc EXCEPT ![c] = "failed"]
            /\ outcome' = [outcome EXCEPT ![c] =
                             Failed(c, findMusicError(emotion[c], SearchFailedError(exchange)))]
            /\ UNCHANGED <<tracks, requests>>
          ELSE IF ~HasTrackItems(exchange.body) THEN
            /\ pc' = [pc EXCEPT ![c] = "failed"]
            /\ outcome' = [outcome EXCEPT ![c] =
                             Failed(c, findMusicError(emotion[c], JsError(m)))]
            /\ UNCHANGED <<tracks, requests>>
          ELSE LET items == Prop(Prop(exchange.body, "tracks"), "items") IN
            /\ tracks' = [tracks EXCEPT ![c] = items]
            /\ IF Len(items) = 0
                 THEN /\ pc' = [pc EXCEPT ![c] = "complete"]
                      /\ outcome' = [outcome EXCEPT ![c] =
                                       Completed(c, Recommendation(c, items, m))]
                      /\ UNCHANGED requests
                 ELSE /\ pc' = [pc EXCEPT ![c] = "awaitFeatures"]
                      /\ requests' = [requests EXCEPT ![c].features = @ + 1]
                      /\ UNCHANGED outcome
  /\ UNCHANGED <<now, accessToken, tokenExpiry, startTime, vibe, emotion, token,
                 features, tokenRequests, seen, fnVars, uiVars>>

\* The audio-feature request settles: filterTracksByEmotion returns and the
\* run completes.
FeaturesSettle(c) ==
  /\ pc[c] = "awaitFeatures"
  /\ \E exchange \in PipelineFeatureExchanges, m \in NotAFunctionMessages :
       /\ features' = [features EXCEPT ![c] = exchange]
       /\ outcome' = [outcome EXCEPT ![c] =
            Completed(c, Recommendation(c,
              filterTracksByEmotion(tracks[c], emotion[c], exchange, m), m))]
  /\ pc' = [pc EXCEPT ![c] = "complete"]
  /\ UNCHANGED <<now, accessToken, tokenExpiry, startTime, vibe, emotion, token,
                 tracks, tokenRequests, requests, seen, answers, fnVars, uiVars>>

\* Time passes.
Tick ==
  /\ \E d \in TickSteps :
       /\ now + d <= MaxTicks * d
       /\ now' = now + d
  /\ UNCHANGED <<accessToken, tokenExpiry, pc, startTime, vibe, emotion, token,
                 tracks, features, outcome, tokenRequests, requests, seen, answers,
                 fnVars, uiVars>>

Init == InitDirect /\ InitService /\ InitUi

Next ==
  \/ \E c \in Callers : StartRun(c)
  \/ \E c \in Callers : ClassifierSettles(c)
  \/ \E c \in Callers : TokenSettles(c)
  \/ \E c \in Callers : SendSearch(c)
  \/ \E c \in Callers : SearchSettles(c)
  \/ \E c \in Callers : FeaturesSettle(c)
  \/ Tick

Spec == Init /\ [][Next]_vars

\* ------------------------------------------------------------------------
\* Properties of the pipeline runs (under Spec)
\* ------------------------------------------------------------------------

\* The classification stage of run c has failed.
ClassifierFailed(c) == pc[c] \notin {"idle", "classifying"} /\ vibe[c].thrown

\* C1: whenever analyzeImageVibe fails, the run ends with an error tagged
\* with step 'vibe', and findMusicByEmotion is never invoked in that run (no
\* token, search or audio-feature request is sent for it either).
C1_ClassifierFailureTaggedVibe ==
  \A c \in Callers :
    ClassifierFailed(c) =>
      /\ pc[c] = "failed"
      /\ outcome[c].thrown
      /\ outcome[c].value.step = "vibe"
      /\ requests[c].matcher = 0
      /\ requests[c].token = 0
      /\ requests[c].search = 0
      /\ requests[c].features = 0

\* C1 witness: the image of one run could not be encoded (the thrown value
\* is no Error) and the run ended tagged 'vibe', while the other run went on
\* to the matcher.
C1_Witness ==
  \E c, d \in Callers :
    /\ ClassifierFailed(c)
    /\ vibe[c].value.message =
         <<"F","a","i","l","e","d"," ","t","o"," ","a","n","a","l","y","z","e"," ","s","c","e","n","e"," ","v","i","b","e",":"," ">>
           \o <<"U","n","k","n","o","w","n"," ","e","r","r","o","r">>
    /\ outcome[c].thrown
    /\ outcome[c].value.step = "vibe"
    /\ requests[d].matcher = 1

\* C2: at most one token request is in flight at any time: concurrent
\* findMusicByEmotion calls that find no valid token share one request.
C2_SingleFlightRefresh ==
  Cardinality({c \in Callers : pc[c] = "awaitToken"}) <= 1

\* Run b called findMusicByEmotion after the call of run a had ended, a had
\* obtained a token from the endpoint, and b found that token in the cache.
CalledAfter(a, b) ==
  /\ a # b
  /\ requests[b].matcher > 0
  /\ a \in seen[b].done
  /\ requests[a].token = 1
  /\ token[a].t = "string"
  /\ seen[b].accessToken = token[a]

\* C3 as claimed: a call that starts inside the validity window of the token
\* (before the time it was obtained + expires_in) sends no token request.
C3_ReusedInsideValidity ==
  \A a, b \in Callers :
    (CalledAfter(a, b) /\ seen[b].now < seen[b].tokenExpiry + RefreshMarginMs)
      => requests[b].token = 0

\* C3 as amended: a call that starts before the cached expiry (the time the
\* token was obtained + expires_in - 60 s) reuses the cached token and sends
\* no token request.
C3_ReusedBeforeCachedExpiry ==
  \A a, b \in Callers :
    (CalledAfter(a, b) /\ seen[b].now < seen[b].tokenExpiry)
      => (requests[b].token = 0 /\ token[b] = token[a])

\* C3 witness: two calls one after the other, the second before the cached
\* expiry; both completed and one token request was sent in all.
C3_Witness ==
  \E a, b \in Callers :
    /\ CalledAfter(a, b)
    /\ seen[b].now < seen[b].tokenExpiry
    /\ seen[b].now > 0
    /\ pc[a] = "complete"
    /\ pc[b] = "complete"
    /\ tokenRequests = 1

\* The audio-feature request of run c was answered with a non-success status
\* or was rejected.
FeaturesFailed(c) ==
  /\ pc[c] = "complete"
  /\ requests[c].features > 0
  /\ \/ features[c].kind = "networkError"
     \/ features[c].kind = "response" /\ ~features[c].ok

\* C4: when the search succeeds and the audio-feature call fails,
\* findMusicByEmotion does not fail: the run completes with exactly the
\* tracks of the search, in the vendor's order.
C4_FeatureFailureKeepsSearchResult ==
  \A c \in Callers :
    FeaturesFailed(c) =>
      /\ ~outcome[c].thrown
      /\ outcome[c].value.music.tracks = tracks[c]

\* C4 witness: a search result of two tracks whose feature request was
\* answered 503 with a body that would rank the second track first.
C4_Witness ==
  \E c \in Callers :
    /\ FeaturesFailed(c)
    /\ Len(tracks[c]) = 2
    /\ features[c].kind = "response"
    /\ features[c].body = ReorderingFeatures
    /\ outcome[c].value.music.tracks = tracks[c]

\* ------------------------------------------------------------------------
\* Properties of the classifier and of the per-vibe tables (under SpecFn)
\* ------------------------------------------------------------------------

\* C5: for every label L and score S, analyzeImageVibe returns the same
\* result for the single-object answer {label: L, score: S} as for the
\* one-element array answer [{label: L, score: S}].
C5_BothShapesSameResult ==
  fn = "analyzeImageVibe: both shapes" =>
    /\ ~ret.single.thrown
    /\ ~ret.array.thrown
    /\ ret.single.value = ret.array.value

\* Whether a parsed body is an object that carries a label.
CarriesLabel(body) == body.t = "object" /\ "label" \in DOMAIN body.fields

\* The answers C6 is about: a non-success status, a 200 answer with an empty
\* array, a 200 answer that is neither an array nor an object with a label.
C6_Unusable(exchange) ==
  /\ exchange.kind = "response"
  /\ \/ ~exchange.ok
     \/ exchange.body = JsArr(<<>>)
     \/ exchange.body.t # "array" /\ ~CarriesLabel(exchange.body)

\* C6: analyzeImageVibe throws an Error, and returns nothing, whenever the
\* endpoint answers with a non-success status, with an empty array, or with a
\* payload that is neither an array nor an object carrying a label.
C6_UnusableAnswerFails ==
  (fn = "analyzeImageVibe" /\ C6_Unusable(arg)) =>
    (ret.thrown /\ ret.value.t = "error")

\* C6 witness: the empty array answer of a 200 response was classified and
\* the call threw.
C6_Witness ==
  /\ fn = "analyzeImageVibe"
  /\ arg = OkResponse(JsArr(<<>>))
  /\ ret.thrown

\* C7: mapSceneToVibe returns the table's vibe for every key of the scene
\* table and 'neutral' for every other string; the result is always one of
\* the eight vibes.
C7_MapSceneToVibeTotal ==
  fn = "mapSceneToVibe" =>
    /\ ret = (IF arg \in DOMAIN sceneToVibeMap
                THEN sceneToVibeMap[arg] ELSE JsStr(neutral))
    /\ ret \in {JsStr(v) : v \in Vibes}

\* C8: getEmotionSearchParams returns, for every mood string in any letter
\* case, a defined {query, reasoning} template: the mood's own entry when the
\* lowercased mood is one of the eight vibes, the neutral entry otherwise.
C8_SearchParamsTotal ==
  fn = "getEmotionSearchParams" =>
    /\ ~ret.thrown
    /\ ret.value = (IF toLowerCase(arg) \in Vibes
                      THEN vibeMap[toLowerCase(arg)] ELSE vibeMap[neutral])

\* C9: every vibe mapSceneToVibe can resolve has its own entry in the search
\* template table and in the target-feature table, and is listed by
\* getSupportedVibes.
C9_ResolvedVibeHasEntries ==
  fn = "mapSceneToVibe" =>
    /\ ret.t = "string"
    /\ ret.str \in DOMAIN vibeMap
    /\ ret.str \in DOMAIN criteriaMap
    /\ \E i \in 1..Len(getSupportedVibes) : getSupportedVibes[i] = ret.str

\* ------------------------------------------------------------------------
\* Properties of the ranking (under SpecFn)
\* ------------------------------------------------------------------------

\* The ranking call of the state obtained feature vectors: a 200 answer
\* carrying the audio_features array, for a non-empty search result and a
\* mood that has criteria.
FeaturesObtained ==
  /\ fn = "filterTracksByEmotion"
  /\ Len(arg.tracks) > 0
  /\ arg.emotion.t = "string"
  /\ arg.exchange.kind = "response"
  /\ arg.exchange.ok
  /\ arg.exchange.body.t = "object"
  /\ Prop(arg.exchange.body, "audio_features").t = "array"

\* The score the ranking call of the state gave the track at vendor index i.
ScoreAt(i) ==
  scoreTrack(arg.tracks[i],
             ElementAt(Prop(arg.exchange.body, "audio_features"), i),
             getEmotionCriteria(arg.emotion, <<>>).value).score.num

\* The vendor index of a track of the search result.
VendorIndex(track) == CHOOSE i \in 1..Len(arg.tracks) : arg.tracks[i] = track

\* C10: when feature vectors are obtained, the returned tracks are in
\* non-increasing order of score, and tracks of equal score keep the order
\* the vendor returned them in.
C10_RankedByScoreStable ==
  FeaturesObtained =>
    /\ Len(ret) = Len(arg.tracks)
    /\ \A i, j \in 1..Len(ret) :
         i < j =>
           LET a == VendorIndex(ret[i])
               b == VendorIndex(ret[j])
           IN \/ ScoreAt(a) > ScoreAt(b)
              \/ ScoreAt(a) = ScoreAt(b) /\ a < b

\* C10 witness: three tracks were ranked; the last of the vendor's order
\* scored highest and came first, and the two others tied and kept their order.
C10_Witness ==
  /\ FeaturesObtained
  /\ Len(arg.tracks) = 3
  /\ ScoreAt(3) > ScoreAt(1)
  /\ ScoreAt(1) = ScoreAt(2)
  /\ ScoreAt(1) > 0
  /\ ret = <<arg.tracks[3], arg.tracks[1], arg.tracks[2]>>

\* The batch response holds a feature vector for the track at vendor index i
\* (the entry is neither missing nor null).
HasVector(i) == Truthy(ElementAt(Prop(arg.exchange.body, "audio_features"), i))

\* The place of the track of vendor index i in the returned list.
PlaceOf(i) == CHOOSE p \in 1..Len(ret) : ret[p] = arg.tracks[i]

\* C11 as claimed: a track without a feature vector gets score 0 and is
\* placed after every track that has a feature vector, and the tracks without
\* a vector keep the vendor's order.
C11_VectorlessAfterEveryVector ==
  FeaturesObtained =>
    \A a, b \in 1..Len(arg.tracks) :
      ~HasVector(a) =>
        /\ ScoreAt(a) = 0
        /\ HasVector(b) => PlaceOf(b) < PlaceOf(a)
        /\ (~HasVector(b) /\ a < b) => PlaceOf(a) < PlaceOf(b)

\* C11 as amended: a track without a feature vector gets score 0 and is
\* placed after every track of positive score; among the tracks of score 0
\* (those without a vector and those whose vector defines no target attribute
\* of the mood) the vendor's order is kept.
C11_VectorlessAfterEveryPositive ==
  FeaturesObtained =>
    \A a, b \in 1..Len(arg.tracks) :
      ~HasVector(a) =>
        /\ ScoreAt(a) = 0
        /\ ScoreAt(b) > 0 => PlaceOf(b) < PlaceOf(a)
        /\ (ScoreAt(b) = 0 /\ a < b) => PlaceOf(a) < PlaceOf(b)

\* C11 witness: of three tracks the first has a null entry, the second a
\* vector of positive score and the third no entry at all; the second came
\* first and the two others kept their order.
C11_Witness ==
  /\ FeaturesObtained
  /\ Len(arg.tracks) = 3
  /\ Len(Prop(arg.exchange.body, "audio_features").items) = 2
  /\ ~HasVector(1)
  /\ HasVector(2)
  /\ ScoreAt(2) > 0
  /\ ret = <<arg.tracks[2], arg.tracks[1], arg.tracks[3]>>

\* ------------------------------------------------------------------------
\* Properties of the score (under SpecFn)
\* ------------------------------------------------------------------------

\* The attributes the target maps of getEmotionCriteria name.
TargetAttributes == {"valence", "energy", "danceability", "acousticness"}

\* The target map of the scoring call of the state.
TargetsOfCall == IF arg.criteria.t = "object" THEN arg.criteria.fields ELSE <<>>

\* The attributes the scoring call of the state can compare: in the target
\* map and defined in the feature vector.
ComparableOfCall ==
  {k \in TargetAttributes :
     k \in DOMAIN TargetsOfCall /\ k \in DOMAIN arg.features.fields}

\* 1 - |actual - target| of attribute k in tenths, 0 for an attribute that
\* is not comparable.
ClosenessOfCall(k) ==
  IF k \in ComparableOfCall
    THEN 10 - Abs(arg.features.fields[k] - TargetsOfCall[k])
    ELSE 0

\* The feature vector of the call with only the target attributes kept.
TargetPartOfCall ==
  JsObj([k \in DOMAIN arg.features.fields \cap DOMAIN TargetsOfCall |->
           arg.features.fields[k]])

\* C12: calculateEmotionScore returns the arithmetic mean of
\* 1 - |actual - target| over exactly the attributes that are in the target
\* map and defined in the feature vector; attributes outside the target map
\* do not change the score; the score is 0 when no attribute is comparable.
C12_ScoreIsMeanOverComparable ==
  fn = "calculateEmotionScore" =>
    LET n == Cardinality(ComparableOfCall)
        total == ClosenessOfCall("valence") + ClosenessOfCall("energy")
                   + ClosenessOfCall("danceability") + ClosenessOfCall("acousticness")
    IN /\ DOMAIN TargetsOfCall \subseteq TargetAttributes
       /\ ret.num * n = total * ScoreUnit
       /\ n = 0 => ret.num = 0
       /\ ret = calculateEmotionScore(TargetPartOfCall, arg.criteria)

\* C12 witness: a vector that defines two of the three targets of its mood
\* and tempo besides, scored above 0.
C12_Witness ==
  /\ fn = "calculateEmotionScore"
  /\ Cardinality(DOMAIN TargetsOfCall) = 3
  /\ Cardinality(ComparableOfCall) = 2
  /\ "tempo" \in DOMAIN arg.features.fields
  /\ ret.num > 0
  /\ ret.num < 10 * ScoreUnit

\* ------------------------------------------------------------------------
\* Properties of the stages of a run (under Spec)
\* ------------------------------------------------------------------------

\* Run c failed in the matching stage: its classification had succeeded.
MatcherFailed(c) == pc[c] = "failed" /\ ~vibe[c].thrown

StageOf(p) ==
  IF p \in {"awaitToken", "tokenReady", "awaitSearch", "awaitFeatures"}
    THEN "matching" ELSE p

\* How far a run has come.
ProgressOf(p) ==
  CASE p = "idle" -> 0
    [] p = "classifying" -> 1
    [] p = "awaitToken" -> 2
    [] p = "tokenReady" -> 3
    [] p = "awaitSearch" -> 4
    [] p = "awaitFeatures" -> 5
    [] p \in {"complete", "failed"} -> 6

\* The stage changes of the state machine of a run.
StageChanges ==
  {<<"idle", "classifying">>, <<"classifying", "matching">>,
   <<"classifying", "failed">>, <<"matching", "complete">>,
   <<"matching", "failed">>}

\* What holds of run c in every state: the calls made so far and the outcome.
RunWellFormed(c) ==
  /\ requests[c].classifier = (IF pc[c] = "idle" THEN 0 ELSE 1)
  /\ requests[c].matcher <= 1
  /\ requests[c].token <= 1
  /\ requests[c].search <= 1
  /\ requests[c].features <= 1
  /\ requests[c].matcher = (IF ProgressOf(pc[c]) >= 2 /\ ~vibe[c].thrown THEN 1 ELSE 0)
  /\ requests[c].matcher = 1 =>
       /\ ~vibe[c].thrown
       /\ emotion[c] = vibe[c].value.fields.dominantEmotion
  /\ StageOf(pc[c]) \in {"idle", "classifying", "matching"} => outcome[c] = Undefined
  /\ pc[c] = "complete" =>
       /\ ~outcome[c].thrown
       /\ DOMAIN outcome[c].value = {"vibe", "music", "processingTime"}
       /\ outcome[c].value.vibe = vibe[c].value
       /\ outcome[c].value.music.emotion = emotion[c]
  /\ pc[c] = "failed" =>
       /\ outcome[c].thrown
       /\ DOMAIN outcome[c].value = {"step", "message", "originalError"}

\* What holds of every step of run c: it moves along the state machine,
\* never back, and a run that has ended stays as it ended.
RunStep(c) ==
  /\ StageOf(pc'[c]) # StageOf(pc[c]) =>
       <<StageOf(pc[c]), StageOf(pc'[c])>> \in StageChanges
  /\ ProgressOf(pc'[c]) >= ProgressOf(pc[c])
  /\ pc[c] \in {"complete", "failed"} =>
       /\ pc'[c] = pc[c]
       /\ outcome'[c] = outcome[c]
       /\ requests'[c] = requests[c]

\* C14: every run follows idle -> classifying -> matching -> complete, or
\* fails from classifying or from matching; the classifier is invoked exactly
\* once, the matcher at most once, only after the classifier succeeded and
\* with the mood it resolved; no stage is retried; the run ends in exactly
\* one of a complete result or an error, never a partial result.
C14_RunStateMachine ==
  /\ [](\A c \in Callers : RunWellFormed(c))
  /\ [][\A c \in Callers : RunStep(c)]_vars

\* C14 witness: one run went through every stage and completed while the
\* other failed from the matching stage.
C14_Witness ==
  \E c, d \in Callers :
    /\ pc[c] = "complete"
    /\ requests[c] = [classifier |-> 1, matcher |-> 1, token |-> 1,
                      search |-> 1, features |-> 1]
    /\ pc[d] = "failed"
    /\ requests[d].matcher = 1
    /\ requests[d].search = 1

\* ------------------------------------------------------------------------
\* Properties of the classification result (under SpecFn)
\* ------------------------------------------------------------------------

\* The classification call of the state returned a result.
AnalysisReturned == fn = "analyzeImageVibe" /\ ~ret.thrown

\* The ranked list of the result of the call of the state.
EmotionsOfResult == ret.value.fields.emotions

\* C15: every result analyzeImageVibe returns has a non-empty emotions list
\* in non-increasing order of score, and its confidence is the score of the
\* first entry, the highest of the list.
C15_EmotionsSortedConfidenceTop ==
  AnalysisReturned =>
    /\ Len(EmotionsOfResult) > 0
    /\ \A i, j \in 1..Len(EmotionsOfResult) :
         i < j => EmotionsOfResult[i].score.num >= EmotionsOfResult[j].score.num
    /\ ret.value.fields.confidence = EmotionsOfResult[1].score
    /\ \A i \in 1..Len(EmotionsOfResult) :
         ret.value.fields.confidence.num >= EmotionsOfResult[i].score.num

\* C15 witness: the vendor listed the lower score first; the result lists
\* the higher one first and takes it as the confidence.
C15_Witness ==
  /\ AnalysisReturned
  /\ arg.kind = "response"
  /\ arg.body.t = "array"
  /\ Len(arg.body.items) = 2
  /\ Prop(arg.body.items[1], "score") = JsNum(3)
  /\ Prop(arg.body.items[2], "score") = JsNum(9)
  /\ EmotionsOfResult[1].score = JsNum(9)
  /\ EmotionsOfResult[2].score = JsNum(3)
  /\ ret.value.fields.confidence = JsNum(9)

\* The call of the state was answered with an array and returned a result.
ArrayAnalysisReturned ==
  AnalysisReturned /\ arg.kind = "response" /\ arg.body.t = "array"

\* C16: for every array answer, in whatever order the vendor lists the
\* entries, the scene of the result is the label of the first entry of the
\* ranked list (the highest-scoring one) and the dominant emotion is the vibe
\* that label maps to.
C16_SceneOfTopLabel ==
  ArrayAnalysisReturned =>
    /\ ret.value.fields.scene = JsStr(EmotionsOfResult[1].label)
    /\ ret.value.fields.dominantEmotion = mapSceneToVibe(EmotionsOfResult[1].label)

\* ------------------------------------------------------------------------
\* Properties of the matcher's failures (under Spec)
\* ------------------------------------------------------------------------

\* An exchange that has settled (a rejected fetch or a response).
Settled(exchange) == "kind" \in DOMAIN exchange

\* The token exchange of run c failed: the fetch was rejected or the
\* endpoint answered with a non-success status.
TokenFailed(c) ==
  /\ Settled(answers[c].token)
  /\ \/ answers[c].token.kind = "networkError"
     \/ answers[c].token.kind = "response" /\ ~answers[c].token.ok

\* The search request of run c was answered with a non-success status.
SearchFailed(c) ==
  /\ Settled(answers[c].search)
  /\ answers[c].search.kind = "response"
  /\ ~answers[c].search.ok

\* C17: findMusicByEmotion fails with an error when the token exchange fails
\* or the search answers with a non-success status; after a token failure
\* neither the search nor the audio-feature endpoint is called, after a
\* search failure the audio-feature endpoint is not called.
C17_MatcherFailsWithoutFurtherCalls ==
  \A c \in Callers :
    /\ TokenFailed(c) =>
         /\ pc[c] = "failed"
         /\ outcome[c].thrown
         /\ outcome[c].value.originalError.t = "error"
         /\ requests[c].search = 0
         /\ ~Settled(answers[c].search)
         /\ requests[c].features = 0
    /\ SearchFailed(c) =>
         /\ pc[c] = "failed"
         /\ outcome[c].thrown
         /\ outcome[c].value.originalError.t = "error"
         /\ requests[c].search = 1
         /\ requests[c].features = 0

\* C17 witness: the token request of one run was answered 401 and the search
\* of the other 503; both runs failed.
C17_Witness ==
  \E c, d \in Callers :
    /\ TokenFailed(c)
    /\ answers[c].token.kind = "response"
    /\ SearchFailed(d)
    /\ pc[c] = "failed"
    /\ pc[d] = "failed"
    /\ includes(outcome[d].value.message,
                <<"S","p","o","t","i","f","y"," ","s","e","a","r","c","h"," ","f","a","i","l","e","d",":"," ","5","0","3">>)

\* ------------------------------------------------------------------------
\* Properties of the configuration check (under SpecFn)
\* ------------------------------------------------------------------------

\* The required settings that are absent (or empty) in the configuration of
\* the call of the state.
AbsentSettings == {v \in DOMAIN arg.env : ~Truthy(arg.env[v])}

\* The settings a list names.
NamedBy(list) == {list[i] : i \in 1..Len(list)}

\* C18: validateConfiguration reports isValid exactly when the three required
\* settings are set and otherwise lists exactly the absent ones; when the
\* configuration is invalid and the user asks for the analysis of a selected
\* image, handleAnalyze records an error naming the absent settings and does
\* not start the pipeline.
C18_InvalidConfigurationNamed ==
  fn = "handleAnalyze" =>
    /\ validateConfiguration(arg.env).isValid = (AbsentSettings = {})
    /\ NamedBy(validateConfiguration(arg.env).missingVars) = AbsentSettings
    /\ (arg.selectedFile /\ AbsentSettings # {}) =>
         /\ ~ret.thrown
         /\ ret.value.error.t = "string"
         /\ \A v \in DOMAIN arg.env :
              (v \in AbsentSettings) <=> (v \in NamedBy(ret.value.error.str))
         /\ ~ret.value.pipelineStarted

\* ------------------------------------------------------------------------
\* Properties of SpotifyService.getRecommendations (under SpecFn)
\* ------------------------------------------------------------------------

\* The requests the call of the state sent to an endpoint.
CallsTo(endpoint) == SelectSeq(ret.calls, LAMBDA call : call.endpoint = endpoint)

\* The recommendation request of the call of the state was sent and failed:
\* the fetch was rejected or the answer had a non-success status.
RecommendationFailed ==
  /\ fn = "getRecommendations"
  /\ Len(CallsTo("recommendations")) = 1
  /\ \/ arg.exchanges.recommendations.kind = "networkError"
     \/ /\ arg.exchanges.recommendations.kind = "response"
        /\ ~arg.exchanges.recommendations.ok

\* What searchTracks comes to when called with the arguments of the call of
\* the state, after its first token request.
FallbackOfCall ==
  searchTracks(arg.tags, arg.emotion, arg.limit,
               spotifyGetAccessToken(arg.cache, arg.configured, arg.exchanges.token).cache,
               arg.configured, arg.exchanges.fallbackToken, arg.exchanges.search)

\* C19: whenever the recommendation endpoint answers with a non-success
\* status or the request throws, getRecommendations falls back to the search
\* for the same tags, emotion and limit and returns its result; the search
\* is attempted at most once, and a failure of the fallback propagates.
C19_FallbackToSearchOnce ==
  RecommendationFailed =>
    /\ ret.outcome = FallbackOfCall.outcome
    /\ Len(CallsTo("search")) <= 1
    /\ \A i \in 1..Len(CallsTo("search")) :
         CallsTo("search")[i] =
           [endpoint |-> "search",
            query |-> tagsToSearchQuery(arg.tags, arg.emotion),
            limit |-> arg.limit]
    /\ Len(CallsTo("search")) = 1 =>
         LET found == arg.exchanges.search IN
           /\ (found.kind = "networkError" \/ ~found.ok) => ret.outcome.thrown
           /\ (found.kind = "response" /\ found.ok /\ found.body.t = "object") =>
                /\ ~ret.outcome.thrown
                /\ Len(ret.outcome.value) = Len(found.body.fields.tracks.fields.items.items)
                /\ \A i \in 1..Len(ret.outcome.value) :
                     /\ ret.outcome.value[i].id = found.body.fields.tracks.fields.items.items[i].id
                     /\ ret.outcome.value[i].emotion = arg.emotion
    /\ Len(CallsTo("search")) = 0 => ret.outcome.thrown

\* C19 witness: the recommendation endpoint answered 404 with a track in its
\* body; the search was sent once and its two tracks were returned.
C19_Witness ==
  /\ RecommendationFailed
  /\ arg.exchanges.recommendations.kind = "response"
  /\ Len(arg.tags) = 4
  /\ Len(CallsTo("search")) = 1
  /\ CallsTo("search")[1].query =
       <<"sunny", " ", "Beach", " ", "sky", " ", "ambient", " ", "electronic">>
  /\ ~ret.outcome.thrown
  /\ Len(ret.outcome.value) = 2
  /\ ret.outcome.value[1].id = <<"2">>
  /\ ret.outcome.value[1].duration = 200

\* ------------------------------------------------------------------------
\* Properties of AIService.mapTagsToEmotion (under SpecFn)
\* ------------------------------------------------------------------------

\* The six emotions.
EmotionTypes == {happy, calm, energetic, romantic, melancholy, mysterious}

\* The number of tags of the call of the state that the table maps, in any
\* letter case, to emotion e.
MatchingTags(e) ==
  Cardinality({i \in 1..Len(arg) :
                 /\ toLowerCase(arg[i]) \in DOMAIN tagEmotionMap
                 /\ tagEmotionMap[toLowerCase(arg[i])] = e})

\* C20: mapTagsToEmotion is total and case-insensitive: it returns one of the
\* six emotions, one whose count of matching tags is maximal among the six,
\* and 'calm' when no tag matches the table.
C20_MaximalEmotionOrCalm ==
  fn = "mapTagsToEmotion" =>
    /\ ret \in EmotionTypes
    /\ \A e \in EmotionTypes : MatchingTags(ret) >= MatchingTags(e)
    /\ (\A e \in EmotionTypes : MatchingTags(e) = 0) => ret = calm
    /\ ret = mapTagsToEmotion([i \in 1..Len(arg) |-> toLowerCase(arg[i])])

\* ------------------------------------------------------------------------
\* Properties of the token cache (under Spec)
\* ------------------------------------------------------------------------

\* Run c has entered getAccessToken.
EnteredGetAccessToken(c) == requests[c].matcher > 0

\* The step is the token request of run c settling with a token.
TokenObtained(c) == pc[c] = "awaitToken" /\ pc'[c] = "tokenReady"

\* C21: a cached token is reused only while the time is strictly before the
\* cached expiry, which is the time the token was obtained + expires_in - 60 s;
\* a getAccessToken call at or after that instant sends a token request, and
\* the token it obtains replaces both the cached token and its expiry.
C21_ReusedStrictlyBeforeExpiry ==
  /\ [](\A c \in Callers :
          EnteredGetAccessToken(c) =>
            /\ requests[c].token = 0 <=>
                 (Truthy(seen[c].accessToken) /\ seen[c].now < seen[c].tokenExpiry)
            /\ requests[c].token = 0 => token[c] = seen[c].accessToken)
  /\ [][\A c \in Callers :
          TokenObtained(c) =>
            /\ accessToken' = answers'[c].token.body.fields.access_token
            /\ tokenExpiry' = now + (answers'[c].token.body.fields.expires_in.num * 1000)
                                - 60000
            /\ token'[c] = accessToken']_vars

\* C21 witness: a run entered getAccessToken at the very instant of the
\* cached expiry, sent a token request, and the token it obtained replaced
\* the cached token and its expiry.
C21_Witness ==
  \E c \in Callers :
    /\ EnteredGetAccessToken(c)
    /\ Truthy(seen[c].accessToken)
    /\ seen[c].now = seen[c].tokenExpiry
    /\ requests[c].token = 1
    /\ token[c].t = "string"
    /\ token[c] # seen[c].accessToken
    /\ accessToken = token[c]
    /\ tokenExpiry > seen[c].tokenExpiry

\* ------------------------------------------------------------------------
\* Properties of the re-ranking as a whole (under SpecFn)
\* ------------------------------------------------------------------------

\* How many times track occurs in list.
Occurrences(list, track) == Cardinality({i \in 1..Len(list) : list[i] = track})

\* C22: filterTracksByEmotion only reorders: on every path the returned list
\* holds exactly the tracks of the search result, each as often as there, and
\* on the paths without a ranking it is the search result itself.
C22_OnlyReorders ==
  fn = "filterTracksByEmotion" =>
    /\ Len(ret) = Len(arg.tracks)
    /\ \A i \in 1..Len(ret) : Occurrences(arg.tracks, ret[i]) = Occurrences(ret, ret[i])
    /\ \A i \in 1..Len(arg.tracks) :
         Occurrences(ret, arg.tracks[i]) = Occurrences(arg.tracks, arg.tracks[i])
    /\ ~FeaturesObtained => ret = arg.tracks

\* C22 witness: a ranking of three tracks, the answer holding a vector for
\* two of them, returned the three tracks in another order.
C22_Witness ==
  /\ FeaturesObtained
  /\ Len(arg.tracks) = 3
  /\ Len(Prop(arg.exchange.body, "audio_features").items) = 2
  /\ ret # arg.tracks
  /\ Len(ret) = 3

\* The step is the token request of run c settling with a failure.
TokenRequestFails(c) == pc[c] = "awaitToken" /\ pc'[c] = "failed"

\* The step is run c entering getAccessToken.
EntersGetAccessToken(c) == requests[c].matcher = 0 /\ requests'[c].matcher = 1

C23_RequestedAgain ==
  \E a, b \in Callers :
    /\ TokenFailed(a)
    /\ a < b
    /\ requests[b].token = 1
    /\ startTime[b] > startTime[a]
    /\ ~Truthy(seen[b].accessToken)

\* ------------------------------------------------------------------------
\* Properties of getRecommendationsFromTags (under SpecFn)
\* ------------------------------------------------------------------------

\* The six emotions and their static track lists, as the source lists them.
StaticTrackIds ==
  (happy :> <<"happy-1", "happy-2">>) @@ (calm :> <<"calm-1", "calm-2">>) @@
  (energetic :> <<"energetic-1", "energetic-2">>) @@
  (romantic :> <<"romantic-1", "romantic-2">>) @@
  (melancholy :> <<"melancholy-1">>) @@ (mysterious :> <<"mysterious-1">>)

\* The list is the static track list of the emotion.
IsStaticListOf(list, emo) ==
  /\ Len(list) = Len(StaticTrackIds[emo])
  /\ \A i \in 1..Len(list) : list[i].id = StaticTrackIds[emo][i]

\* What the track-search vendor returned to the call of the state.
VendorOutcome ==
  getRecommendations(arg.tags, emotionName[mapTagsToEmotion(arg.tags)], 8, arg.cache,
                     arg.configured, arg.exchanges).outcome

\* C24: getRecommendationsFromTags never fails and never returns an empty
\* track list: it returns the emotion of mapTagsToEmotion and either the
\* vendor's non-empty tracks or the non-empty static list of that emotion.
C24_NeverFailsNeverEmpty ==
  fn = "getRecommendationsFromTags" =>
    /\ ~ret.outcome.thrown
    /\ ret.outcome.value.emotion = mapTagsToEmotion(arg.tags)
    /\ ret.outcome.value.emotion \in DOMAIN StaticTrackIds
    /\ ret.outcome.value.tracks.t = "array"
    /\ Len(ret.outcome.value.tracks.items) > 0
    /\ IF ~VendorOutcome.thrown /\ Len(VendorOutcome.value) > 0
         THEN ret.outcome.value.tracks.items = VendorOutcome.value
         ELSE IsStaticListOf(ret.outcome.value.tracks.items, ret.outcome.value.emotion)

\* C24 witness: the recommendation request failed and the search of the
\* fallback found no track; the static list of 'mysterious' was returned.
C24_Witness ==
  /\ fn = "getRecommendationsFromTags"
  /\ arg.tags = <<<<"F","O","G">>, <<"v","i","b","r","a","n","t">>, <<"F","O","G">>>>
  /\ arg.exchanges.recommendations.kind = "networkError"
  /\ ~VendorOutcome.thrown
  /\ Len(VendorOutcome.value) = 0
  /\ ret.outcome.value.emotion = mysterious
  /\ IsStaticListOf(ret.outcome.value.tracks.items, mysterious)

\* The vendor failed altogether and the static list was returned.
C24_VendorThrew ==
  /\ fn = "getRecommendationsFromTags"
  /\ VendorOutcome.thrown
  /\ IsStaticListOf(ret.outcome.value.tracks.items, ret.outcome.value.emotion)

\* The vendor's tracks were returned.
C24_VendorTracks ==
  /\ fn = "getRecommendationsFromTags"
  /\ ~VendorOutcome.thrown
  /\ Len(VendorOutcome.value) = 2
  /\ ret.outcome.value.tracks.items = VendorOutcome.value

\* ------------------------------------------------------------------------
\* PhotoUpload.handleUpload: one run with its retries
\* ------------------------------------------------------------------------

\* const maxRetries = 3
maxRetries == 3

\* Most calls of uploadPhoto followed in one run.
MaxUploadCalls == 4

\* What a call of uploadPhoto can come to: it resolves with {data, error},
\* or it rejects.
Resolved(data, err) == [settled |-> "resolved", data |-> data, error |-> err]
Rejected(err) == [settled |-> "rejected", error |-> err]

\* The messages of the errors of an upload: of a failed request, of the
\* vendor, and none.
UploadErrors ==
  {JsError(<<"F","a","i","l","e","d"," ","t","o"," ","f","e","t","c","h">>),
   JsError(<<"B","u","c","k","e","t"," ","n","o","t"," ","f","o","u","n","d">>),
   JsObj(<<>>)}

\* The outcomes of uploadPhoto: success, a returned error, a thrown error,
\* and a result with neither data nor error.
UploadPhotoOutcomes ==
  {Resolved(JsObj([id |-> JsStr(<<"p","1">>)]), Null), Resolved(Null, Null)}
    \cup {Resolved(Null, e) : e \in UploadErrors}
    \cup {Rejected(e) : e \in UploadErrors}

\* error.message
MessageOf(err) == IF err.t = "error" THEN JsStr(err.message) ELSE Undefined

\* error.message?.includes('fetch')
MentionsFetch(err) ==
  MessageOf(err).t = "string" /\ includes(MessageOf(err).str, <<"f","e","t","c","h">>)

\* error.message || fallback
MessageOrElse(err, fallback) == JsOr(MessageOf(err), JsStr(fallback))

\* Math.min(prev + 10, 90)
NextProgress(prev) == IF prev + 10 < 90 THEN prev + 10 ELSE 90

\* The dialog is opened.
OpenDialog ==
  /\ ~isOpen
  /\ isOpen' = TRUE
  /\ UNCHANGED <<uploadSelectedFile, uploading, uploadProgress, progressInterval,
                 retryCount, lastError, uploadPc, toast, uploadCalls, uploadSettled>>
  /\ UNCHANGED otherThanUpload

\* handleFileSelect with an image of at most 10 MB.
handleFileSelect ==
  /\ isOpen
  /\ uploadPc = "idle"
  /\ uploadSelectedFile' = TRUE
  /\ UNCHANGED <<isOpen, uploading, uploadProgress, progressInterval, retryCount,
                 lastError, uploadPc, toast, uploadCalls, uploadSettled>>
  /\ UNCHANGED otherThanUpload

\* handleUpload is called: without a file it only shows a toast; with one it
\* starts the interval and calls uploadPhoto for the first time.
handleUpload ==
  /\ isOpen
  /\ uploadPc = "idle"
  /\ IF ~uploadSelectedFile
       THEN /\ toast' = "Please select a file"
            /\ UNCHANGED <<uploading, uploadProgress, progressInterval, retryCount,
                           lastError, uploadPc, uploadCalls>>
       ELSE /\ uploading' = TRUE
            /\ uploadProgress' = 0
            /\ progressInterval' = TRUE
            /\ retryCount' = 0
            /\ lastError' = Undefined
            /\ uploadPc' = "awaitUpload"
            /\ uploadCalls' = uploadCalls + 1
            /\ UNCHANGED toast
  /\ UNCHANGED <<isOpen, uploadSelectedFile, uploadSettled>>
  /\ UNCHANGED otherThanUpload

\* The interval fires: setUploadProgress(prev => Math.min(prev + 10, 90)).
ProgressTick ==
  /\ progressInterval
  /\ uploadProgress' = NextProgress(uploadProgress)
  /\ UNCHANGED <<isOpen, uploadSelectedFile, uploading, progressInterval, retryCount,
                 lastError, uploadPc, toast, uploadCalls, uploadSettled>>
  /\ UNCHANGED otherThanUpload

\* The finally block: setUploading(false); setUploadProgress(0).
Finally ==
  /\ uploading' = FALSE
  /\ uploadProgress' = 0
  /\ uploadPc' = "ended"

\* The call of uploadPhoto settles.  A result with an error is retried after
\* a delay when the error mentions 'fetch' and fewer than two retries were
\* made, and ends the run otherwise; a result with data ends the run through
\* handleClose; a result with neither takes the loop to its head, where
\* uploadPhoto is called again; a rejection is retried alike or leaves the
\* loop.
UploadSettles ==
  /\ uploadPc = "awaitUpload"
  /\ \E result \in UploadPhotoOutcomes :
       /\ uploadSettled' = result
       /\ IF result.settled = "resolved"
            THEN /\ progressInterval' = FALSE
                 /\ UNCHANGED lastError
                 /\ IF Truthy(result.error)
                      THEN IF MentionsFetch(result.error) /\ retryCount < maxRetries - 1
                             THEN /\ retryCount' = retryCount + 1
                                  /\ toast' = "Upload failed, retrying..."
                                  /\ uploadProgress' = 100
                                  /\ uploadPc' = "delay"
                                  /\ UNCHANGED <<isOpen, uploadSelectedFile, uploading,
                                                 uploadCalls>>
                             ELSE /\ toast' = MessageOrElse(result.error,
                                                           <<"Failed to upload photo">>)
                                  /\ Finally
                                  /\ UNCHANGED <<isOpen, uploadSelectedFile, retryCount,
                                                 uploadCalls>>
                      ELSE IF Truthy(result.data)
                             THEN /\ toast' = "Photo uploaded successfully!"
                                  /\ isOpen' = FALSE
                                  /\ uploadSelectedFile' = FALSE
                                  /\ Finally
                                  /\ UNCHANGED <<retryCount, uploadCalls>>
                             ELSE /\ uploadCalls < MaxUploadCalls
                                  /\ uploadProgress' = 100
                                  /\ uploadCalls' = uploadCalls + 1
                                  /\ UNCHANGED <<isOpen, uploadSelectedFile, uploading,
                                                 retryCount, uploadPc, toast>>
            ELSE /\ lastError' = result.error
                 /\ IF MentionsFetch(result.error) /\ retryCount < maxRetries - 1
                      THEN /\ retryCount' = retryCount + 1
                           /\ toast' = "Network error, retrying..."
                           /\ uploadPc' = "delay"
                           /\ UNCHANGED <<isOpen, uploadSelectedFile, uploading,
                                          uploadProgress, progressInterval, uploadCalls>>
                      ELSE /\ progressInterval' = FALSE
                           /\ toast' = MessageOrElse(result.error,
                                         <<"Upload failed after multiple attempts">>)
                           /\ Finally
                           /\ UNCHANGED <<isOpen, uploadSelectedFile, retryCount,
                                          uploadCalls>>
  /\ UNCHANGED otherThanUpload

\* The delay before a retry has passed: the loop calls uploadPhoto again.
RetryDelayElapses ==
  /\ uploadPc = "delay"
  /\ retryCount < maxRetries
  /\ uploadPc' = "awaitUpload"
  /\ uploadCalls' = uploadCalls + 1
  /\ UNCHANGED <<isOpen, uploadSelectedFile, uploading, uploadProgress,
                 progressInterval, retryCount, lastError, toast, uploadSettled>>
  /\ UNCHANGED otherThanUpload

NextUpload ==
  \/ OpenDialog
  \/ handleFileSelect
  \/ handleUpload
  \/ ProgressTick
  \/ UploadSettles
  \/ RetryDelayElapses

SpecUpload == Init /\ [][NextUpload]_vars

\* The step calls uploadPhoto again.
CallsUploadAgain == uploadCalls >= 1 /\ uploadCalls' = uploadCalls + 1

\* The last call of uploadPhoto came to an error (returned or thrown) whose
\* message contains 'fetch'.
SettledWithFetchError ==
  /\ "settled" \in DOMAIN uploadSettled
  /\ uploadSettled.settled = "resolved" => Truthy(uploadSettled.error)
  /\ MentionsFetch(uploadSettled.error)

\* C25: one handleUpload run calls uploadPhoto at most 3 times, calls it
\* again only after an error whose message contains 'fetch', and has
\* uploading = false and uploadProgress = 0 once it has ended, whatever the
\* calls of uploadPhoto come to; with at most 3 calls, each of which settles,
\* the run ends.
C25_AtMostThreeUploads ==
  /\ [](uploadCalls <= 3)
  /\ [][CallsUploadAgain => SettledWithFetchError']_vars
  /\ [](uploadPc = "ended" => (~uploading /\ uploadProgress = 0 /\ ~progressInterval))

\* ------------------------------------------------------------------------
\* Properties of uploadPhoto (under SpecFn)
\* ------------------------------------------------------------------------

\* The file of the upload of the state.
UploadedPath == filePathOf(arg.userId, arg.fileName)

\* The removal of the call, when it is made, succeeds.
RemovalSucceeds == ~Truthy(arg.responses.remove.error)

C26_ErrorAfterInsert ==
  /\ fn = "uploadPhoto"
  /\ Truthy(ret.result.error)
  /\ UploadedPath \in ret.store.files
  /\ UploadedPath \in ret.store.records

\* ------------------------------------------------------------------------
\* MoodAnalyzer.handleAnalyze and its progress timer
\* ------------------------------------------------------------------------

\* Most runs of handleAnalyze followed.
MaxAnalyses == 3

\* What analyzeImageAndFindMusic comes to: a MoodMusicResult, or a
\* MoodMusicError with its step.
AnalysisOutcomes ==
  {Return([vibe |-> "calm", music |-> "tracks"])}
    \cup {Throw([step |-> step]) : step \in {"vibe", "music", "unknown"}}

\* The message shown for a failed analysis (lines 92-97).
errorMessage(err) ==
  IF err.step = "vibe"
    THEN "Failed to analyze vibe. Check your Hugging Face API key."
  ELSE IF err.step = "music"
    THEN "Failed to find music. Check your Spotify API credentials."
  ELSE "Analysis failed. Please try again."

\* handleFileSelect with an image of at most 10 MB (lines 24-46).
AnalyzerFileSelect ==
  /\ analyzerSelectedFile' = TRUE
  /\ analyzerError' = Null
  /\ analysisResult' = Null
  /\ UNCHANGED <<isAnalyzing, analysisStep, pendingTimers, analysisPc, analyses>>
  /\ UNCHANGED otherThanAnalyzer

\* handleAnalyze is called (the button is disabled while isAnalyzing).
\* Without a file it only shows a toast; the configuration is valid whenever
\* the component is loaded.  Otherwise the progress timer is started and
\* analyzeImageAndFindMusic is awaited.
StartAnalyze ==
  /\ analysisPc = "idle"
  /\ analyses < MaxAnalyses
  /\ IF ~analyzerSelectedFile
       THEN UNCHANGED <<isAnalyzing, analysisStep, analyzerError, pendingTimers,
                        analysisPc, analyses>>
       ELSE /\ isAnalyzing' = TRUE
            /\ analyzerError' = Null
            /\ analysisStep' = "emotion"
            /\ pendingTimers' = pendingTimers + 1
            /\ analysisPc' = "awaitAnalysis"
            /\ analyses' = analyses + 1
  /\ UNCHANGED <<analyzerSelectedFile, analysisResult>>
  /\ UNCHANGED otherThanAnalyzer

\* The 2-second timer of line 78 fires: setAnalysisStep('music').
ProgressTimerFires ==
  /\ pendingTimers > 0
  /\ pendingTimers' = pendingTimers - 1
  /\ analysisStep' = "music"
  /\ UNCHANGED <<analyzerSelectedFile, isAnalyzing, analysisResult, analyzerError,
                 analysisPc, analyses>>
  /\ UNCHANGED otherThanAnalyzer

\* analyzeImageAndFindMusic settles: the result or the error message is
\* set, and the finally block sets isAnalyzing to false and analysisStep to
\* 'idle' (lines 82-104).
AnalysisSettles ==
  /\ analysisPc = "awaitAnalysis"
  /\ \E settled \in AnalysisOutcomes :
       IF settled.thrown
         THEN /\ analyzerError' = errorMessage(settled.value)
              /\ UNCHANGED analysisResult
         ELSE /\ analysisResult' = settled.value
              /\ UNCHANGED analyzerError
  /\ isAnalyzing' = FALSE
  /\ analysisStep' = "idle"
  /\ analysisPc' = "idle"
  /\ UNCHANGED <<analyzerSelectedFile, pendingTimers, analyses>>
  /\ UNCHANGED otherThanAnalyzer

NextAnalyzer ==
  \/ AnalyzerFileSelect
  \/ StartAnalyze
  \/ ProgressTimerFires
  \/ AnalysisSettles

SpecAnalyzer == Init /\ [][NextAnalyzer]_vars

\* C27: whenever isAnalyzing is false the analysisStep is 'idle', in every
\* interleaving of the end of an analysis with the progress timer.
C27_IdleWhenNotAnalyzing == ~isAnalyzing => analysisStep = "idle"

\* ------------------------------------------------------------------------
\* useAudioPlayer: the hook, the audio element and its events
\* ------------------------------------------------------------------------

\* The values of the src prop.
Sources == {JsStr(<<"a">>), JsStr(<<"b">>), Null}

\* The length of the tracks, in seconds, and the times sought.
TrackSeconds == 2
SeekInputs == {0, 2, 3}

\* The volumes asked for, in tenths, and Math.max(0, Math.min(1, volume)).
VolumeInputs == {3, 12}
clamp(level) == IF level < 0 THEN 0 ELSE IF level > 10 THEN 10 ELSE level

\* Where the promise of audio.play() stands after the element aborts it: a
\* pending promise is rejected, the rejection not yet delivered.
Aborted(promise) == IF promise = "pending" THEN "rejected" ELSE promise

\* The effect of lines 28-77 runs for a src (the src, onEnded or onError
\* changed): the listeners of the last run are removed; with a src it is
\* assigned to the element, which aborts a pending play(), error is reset and
\* the listeners are attached; without one error is set and the element is
\* left as it is.
SrcEffect ==
  \E src \in Sources :
    /\ playerSrc' = src
    /\ IF Truthy(src)
         THEN /\ audioSrc' = src
              /\ playerError' = FALSE
              /\ listening' = TRUE
              /\ playPromise' = Aborted(playPromise)
              /\ UNCHANGED isPlaying
         ELSE /\ playerError' = TRUE
              /\ isPlaying' = FALSE
              /\ listening' = FALSE
              /\ UNCHANGED <<audioSrc, playPromise>>
    /\ UNCHANGED currentTime
    /\ UNCHANGED <<duration, volume>>
    /\ UNCHANGED otherThanPlayer

\* play (lines 87-103) up to its await: with an error or without a src it
\* sets error; otherwise it calls audio.play() and awaits the promise.
play ==
  /\ playPromise = "none"
  /\ IF playerError \/ ~Truthy(playerSrc)
       THEN /\ playerError' = TRUE
            /\ UNCHANGED playPromise
       ELSE /\ playPromise' = "pending"
            /\ UNCHANGED playerError
  /\ UNCHANGED <<playerSrc, isPlaying, currentTime, audioSrc, listening>>
  /\ UNCHANGED <<duration, volume>>
  /\ UNCHANGED otherThanPlayer

\* The promise of audio.play() is fulfilled: setState isPlaying: true.
PlayResolves ==
  /\ playPromise = "pending"
  /\ playPromise' = "none"
  /\ isPlaying' = TRUE
  /\ UNCHANGED <<playerSrc, playerError, currentTime, audioSrc, listening>>
  /\ UNCHANGED <<duration, volume>>
  /\ UNCHANGED otherThanPlayer

\* The promise of audio.play() is rejected (by the element, or aborted by a
\* load or a pause): the catch sets error: true, isPlaying: false.
PlayRejects ==
  /\ playPromise \in {"pending", "rejected"}
  /\ playPromise' = "none"
  /\ playerError' = TRUE
  /\ isPlaying' = FALSE
  /\ UNCHANGED <<playerSrc, currentTime, audioSrc, listening>>
  /\ UNCHANGED <<duration, volume>>
  /\ UNCHANGED otherThanPlayer

\* pause (lines 105-111): audio.pause() aborts a pending play().
pause ==
  /\ isPlaying' = FALSE
  /\ playPromise' = Aborted(playPromise)
  /\ UNCHANGED <<playerSrc, playerError, currentTime, audioSrc, listening>>
  /\ UNCHANGED <<duration, volume>>
  /\ UNCHANGED otherThanPlayer

\* stop (lines 113-120)
stop ==
  /\ isPlaying' = FALSE
  /\ currentTime' = 0
  /\ playPromise' = Aborted(playPromise)
  /\ UNCHANGED <<playerSrc, playerError, audioSrc, listening>>
  /\ UNCHANGED <<duration, volume>>
  /\ UNCHANGED otherThanPlayer

\* toggle (lines 135-142)
toggle == IF isPlaying THEN pause ELSE play

\* seek (lines 122-128)
seek ==
  \E time \in SeekInputs :
    /\ ~playerError
    /\ time >= 0
    /\ time <= duration
    /\ currentTime' = time
    /\ UNCHANGED <<playerSrc, isPlaying, playerError, duration, volume, audioSrc,
                   listening, playPromise>>
    /\ UNCHANGED otherThanPlayer

\* setVolume (lines 130-133)
setVolume ==
  \E level \in VolumeInputs :
    /\ volume' = clamp(level)
    /\ UNCHANGED <<playerSrc, isPlaying, playerError, currentTime, duration, audioSrc,
                   listening, playPromise>>
    /\ UNCHANGED otherThanPlayer

\* The element fires loadedmetadata: handleLoadedMetadata.
LoadedMetadataEvent ==
  /\ listening
  /\ duration' = TrackSeconds
  /\ UNCHANGED <<playerSrc, isPlaying, playerError, currentTime, volume, audioSrc,
                 listening, playPromise>>
  /\ UNCHANGED otherThanPlayer

\* The element fires timeupdate: handleTimeUpdate.
TimeUpdateEvent ==
  /\ listening
  /\ currentTime' = 1
  /\ UNCHANGED <<playerSrc, isPlaying, playerError, audioSrc, listening, playPromise>>
  /\ UNCHANGED <<duration, volume>>
  /\ UNCHANGED otherThanPlayer

\* The element fires ended: handleEnded.
EndedEvent ==
  /\ listening
  /\ isPlaying' = FALSE
  /\ currentTime' = 0
  /\ UNCHANGED <<playerSrc, playerError, audioSrc, listening, playPromise>>
  /\ UNCHANGED <<duration, volume>>
  /\ UNCHANGED otherThanPlayer

\* The element fires error: handleError; the element rejects a pending
\* play().
ErrorEvent ==
  /\ listening
  /\ playerError' = TRUE
  /\ isPlaying' = FALSE
  /\ playPromise' = Aborted(playPromise)
  /\ UNCHANGED <<playerSrc, currentTime, audioSrc, listening>>
  /\ UNCHANGED <<duration, volume>>
  /\ UNCHANGED otherThanPlayer

\* The element fires canplay: handleCanPlay.
CanPlayEvent ==
  /\ listening
  /\ playerError' = FALSE
  /\ UNCHANGED <<playerSrc, isPlaying, currentTime, audioSrc, listening, playPromise>>
  /\ UNCHANGED <<duration, volume>>
  /\ UNCHANGED otherThanPlayer

NextPlayer ==
  \/ SrcEffect
  \/ play
  \/ PlayResolves
  \/ PlayRejects
  \/ pause
  \/ stop
  \/ toggle
  \/ seek
  \/ setVolume
  \/ LoadedMetadataEvent
  \/ TimeUpdateEvent
  \/ EndedEvent
  \/ ErrorEvent
  \/ CanPlayEvent

SpecPlayer == Init /\ [][NextPlayer]_vars

\* C28: isPlaying is never true while error is true, in every interleaving
\* of play, pause, stop, toggle, a change of src and the element's ended,
\* error and canplay events with the settling of play().
C28_NotPlayingWhileError == ~(isPlaying /\ playerError)

\* ------------------------------------------------------------------------
\* Index: the gallery page, the single image view, deletions in flight
\* ------------------------------------------------------------------------

\* Most photos uploaded and most deletions awaited at a time.
MaxUploads == 1
MaxDeletions == 2

\* A GalleryImage: its id, and whether it carries an analysis.
GalleryImage(id, analyzed) == [id |-> id, analyzed |-> analyzed]

\* The photos getUserPhotos returns.
UserPhotos == <<GalleryImage(1, FALSE), GalleryImage(2, FALSE)>>

\* prev.filter(img => img.id !== imageId)
RECURSIVE withoutImage(_, _)
withoutImage(list, imageId) ==
  IF Len(list) = 0 THEN <<>>
  ELSE IF Head(list).id = imageId THEN withoutImage(Tail(list), imageId)
  ELSE <<Head(list)>> \o withoutImage(Tail(list), imageId)

\* prev.map(img => img.id === updatedImage.id ? updatedImage : img)
withUpdated(list, updatedImage) ==
  [i \in 1..Len(list) |-> IF list[i].id = updatedImage.id THEN updatedImage ELSE list[i]]

\* The gallery grid is shown and can be clicked: the photos are loaded, there
\* is one, and the single image view, which overlays the page, is closed.
GridShown == ~loading /\ Len(images) > 0 /\ selectedImage = Null

\* loadPhotos settles (lines 20-32).
LoadPhotosSettles ==
  /\ loading
  /\ \E failed \in BOOLEAN :
       images' = IF failed THEN images ELSE UserPhotos
  /\ loading' = FALSE
  /\ UNCHANGED <<selectedImage, deletions, uploadedPhotos, deleteSettled>>
  /\ UNCHANGED otherThanIndex

\* handleImageClick (lines 34-36)
handleImageClick ==
  /\ GridShown
  /\ \E i \in 1..Len(images) : selectedImage' = images[i]
  /\ UNCHANGED <<loading, images, deletions, uploadedPhotos, deleteSettled>>
  /\ UNCHANGED otherThanIndex

\* handleCloseImageView (lines 38-40)
handleCloseImageView ==
  /\ selectedImage # Null
  /\ selectedImage' = Null
  /\ UNCHANGED <<loading, images, deletions, uploadedPhotos, deleteSettled>>
  /\ UNCHANGED otherThanIndex

\* handleUpdateImage (lines 42-48), called by the view with its image and
\* the analysis saved.
handleUpdateImage ==
  /\ selectedImage # Null
  /\ LET updatedImage == GalleryImage(selectedImage.id, TRUE)
     IN /\ images' = withUpdated(images, updatedImage)
        /\ selectedImage' = updatedImage
  /\ UNCHANGED <<loading, deletions, uploadedPhotos, deleteSettled>>
  /\ UNCHANGED otherThanIndex

\* handleUploadSuccess (lines 54-56)
handleUploadSuccess ==
  /\ ~loading
  /\ selectedImage = Null
  /\ uploadedPhotos < MaxUploads
  /\ uploadedPhotos' = uploadedPhotos + 1
  /\ images' = <<GalleryImage(Len(UserPhotos) + uploadedPhotos + 1, FALSE)>> \o images
  /\ UNCHANGED <<loading, selectedImage, deletions, deleteSettled>>
  /\ UNCHANGED otherThanIndex

\* handleDeleteImage up to its await (lines 58-63): after the confirmation
\* deletePhoto is awaited; the continuation holds the selectedImage of the
\* render the handler belongs to.
handleDeleteImage ==
  /\ GridShown
  /\ Cardinality(deletions) < MaxDeletions
  /\ \E i \in 1..Len(images), confirmed \in BOOLEAN :
       deletions' = IF confirmed
                      THEN deletions \cup {[imageId |-> images[i].id,
                                            selectedImage |-> selectedImage]}
                      ELSE deletions
  /\ UNCHANGED <<loading, images, selectedImage, uploadedPhotos, deleteSettled>>
  /\ UNCHANGED otherThanIndex

\* deletePhoto settles (lines 65-76).  With an error only a toast is shown;
\* otherwise the photo is filtered out of images, and the view is closed when
\* the selectedImage the handler holds is the deleted photo.
DeletePhotoSettles ==
  \E deletion \in deletions, failed \in BOOLEAN :
    /\ deletions' = deletions \ {deletion}
    /\ deleteSettled' = [imageId |-> deletion.imageId, error |-> failed]
    /\ IF failed
         THEN UNCHANGED <<images, selectedImage>>
         ELSE /\ images' = withoutImage(images, deletion.imageId)
              /\ selectedImage' =
                   IF deletion.selectedImage # Null
                        /\ deletion.selectedImage.id = deletion.imageId
                     THEN Null ELSE selectedImage
    /\ UNCHANGED <<loading, uploadedPhotos>>
    /\ UNCHANGED otherThanIndex

NextIndex ==
  \/ LoadPhotosSettles
  \/ handleImageClick
  \/ handleCloseImageView
  \/ handleUpdateImage
  \/ handleUploadSuccess
  \/ handleDeleteImage
  \/ DeletePhotoSettles

SpecIndex == Init /\ [][NextIndex]_vars

\* The ids of the photos in images.
ImageIds == {images[i].id : i \in 1..Len(images)}

\* The step is a deletePhoto settling with an error.
DeletionFails ==
  /\ deletions' # deletions
  /\ Cardinality(deletions') < Cardinality(deletions)
  /\ deleteSettled'.error

\* C29: whenever selectedImage is non-null it refers to a photo present in
\* images, in every interleaving of handleImageClick, handleCloseImageView
\* and handleUpdateImage with a deletion in flight; and a failed deletion
\* changes neither images nor selectedImage.
C29_SelectedImagePresent ==
  /\ [](selectedImage # Null => selectedImage.id \in ImageIds)
  /\ [][DeletionFails => UNCHANGED <<images, selectedImage>>]_vars

\* ------------------------------------------------------------------------
\* SingleImageView: addTag, removeTag and the recommendations awaited
\* ------------------------------------------------------------------------

\* Most calls of addTag and removeTag followed.
MaxTagEdits == 3

\* The tags typed: of two emotions, and of no entry of the table.
ViewTags ==
  {<<"s","u","n","n","y">>, <<"F","O","G">>, <<"p","l","a","i","d">>}

\* geminiTags.includes(tag)
includesTag(list, tag) == \E i \in 1..Len(list) : list[i] = tag

\* geminiTags.filter(tag => tag !== tagToRemove)
RECURSIVE withoutTag(_, _)
withoutTag(list, tagToRemove) ==
  IF Len(list) = 0 THEN <<>>
  ELSE IF Head(list) = tagToRemove THEN withoutTag(Tail(list), tagToRemove)
  ELSE <<Head(list)>> \o withoutTag(Tail(list), tagToRemove)

\* What the vendor does for a request: it is not reachable (no credentials),
\* or it recommends a track.
VendorBehaviours == {FALSE, TRUE}

\* What aiService.getRecommendationsFromTags resolves with for the tags.
recommendationsFromTags(tags, vendorUp) ==
  LET issued == OkResponse(JsObj([access_token |-> JsStr(TokenText(1)),
                                  expires_in |-> JsNum(3600)]))
      exchanges == [token |-> issued,
                    recommendations |-> OkResponse(JsObj([tracks |-> VendorTracks(1, 1)])),
                    fallbackToken |-> issued,
                    search |-> NetworkError]
  IN getRecommendationsFromTags(tags, [accessToken |-> Null, tokenExpiry |-> 0],
                                vendorUp, exchanges).outcome.value

\* addTag (lines 139-154) up to its await, for a tag typed that is not in the
\* list: the tag is appended and the recommendations for the new list are
\* awaited.
addTag ==
  /\ tagEdits < MaxTagEdits
  /\ \E newTag \in ViewTags :
       /\ ~includesTag(geminiTags, newTag)
       /\ LET updatedTags == Append(geminiTags, newTag)
          IN /\ geminiTags' = updatedTags
             /\ tagRequests' = tagRequests \cup {[call |-> tagEdits + 1,
                                                  tags |-> updatedTags]}
  /\ tagEdits' = tagEdits + 1
  /\ UNCHANGED <<detectedEmotion, recommendedTracks>>
  /\ UNCHANGED otherThanView

\* removeTag (lines 156-173) up to its await: the tag is filtered out; the
\* recommendations for a non-empty list are awaited, for an empty one the
\* tracks and the emotion are cleared.
removeTag ==
  /\ tagEdits < MaxTagEdits
  /\ \E i \in 1..Len(geminiTags) :
       LET updatedTags == withoutTag(geminiTags, geminiTags[i])
       IN /\ geminiTags' = updatedTags
          /\ IF Len(updatedTags) > 0
               THEN /\ tagRequests' = tagRequests \cup {[call |-> tagEdits + 1,
                                                         tags |-> updatedTags]}
                    /\ UNCHANGED <<detectedEmotion, recommendedTracks>>
               ELSE /\ recommendedTracks' = JsArr(<<>>)
                    /\ detectedEmotion' = Null
                    /\ UNCHANGED tagRequests
  /\ tagEdits' = tagEdits + 1
  /\ UNCHANGED otherThanView

\* A getRecommendationsFromTags awaited by addTag or removeTag resolves:
\* setDetectedEmotion(emotion); setRecommendedTracks(tracks).
RecommendationsSettle ==
  /\ \E request \in tagRequests, vendorUp \in VendorBehaviours :
       LET answer == recommendationsFromTags(request.tags, vendorUp)
       IN /\ detectedEmotion' = JsStr(answer.emotion)
          /\ recommendedTracks' = answer.tracks
          /\ tagRequests' = tagRequests \ {request}
  /\ UNCHANGED <<geminiTags, tagEdits>>
  /\ UNCHANGED otherThanView

NextView ==
  \/ addTag
  \/ removeTag
  \/ RecommendationsSettle

SpecView == Init /\ [][NextView]_vars

\* C30: once every request started by addTag and removeTag has settled, the
\* emotion and the tracks shown are those computed from the current tag
\* list, and null and empty when the list is empty.
C30_ShownForCurrentTags ==
  (tagEdits > 0 /\ tagRequests = {}) =>
    IF Len(geminiTags) = 0
      THEN detectedEmotion = Null /\ recommendedTracks = JsArr(<<>>)
      ELSE /\ detectedEmotion = JsStr(mapTagsToEmotion(geminiTags))
           /\ \E vendorUp \in VendorBehaviours :
                recommendedTracks = recommendationsFromTags(geminiTags, vendorUp).tracks

====
